---------------------------- MODULE Spec2Model ----------------------------
(***************************************************************************)
(* Two-leg order execution of Parcer (src/parcer/orders): OrderManager,    *)
(* RiskManager, Position and the TradeHistory records they write.          *)
(*                                                                         *)
(* Quantities are in hundredths of a unit and money in hundredths of USDT, *)
(* so the floats of the source become integers; a quotient that need not   *)
(* be an integer is kept as an exact fraction [n, d].                      *)
(* Every caller in the repository leaves entry_order's and exit_order's    *)
(* `history` argument at its default or passes the manager's own store, so *)
(* hist (manager.py:177, 526) is self.history.                             *)
(***************************************************************************)
EXTENDS Integers, Sequences, FiniteSets, TLC

\* ------------------------------------------------------------------ bounds
MaxPositions == 2          \* positions created in one behaviour
MaxRuns == 2               \* entry_order / exit_order runs in one behaviour
MaxDeviations == 2         \* venue responses of one run that are not the plain one

\* ------------------------------------------------------- input value sets
Qty == 100                              \* requested leg quantity
UnfilledFills == {0, 50}                \* what an order not reported filled may have filled
PriceHints == {0, 100}                  \* 0 stands for None (no hint)
LowBalance == 10                        \* free USDT short of any required margin
HighBalance == 10000                    \* free USDT above any required margin
MaxPositionsSettings == {0, 1}          \* settings.trading.max_positions
Leverage == 3                           \* settings.trading.leverage
NoId == 0                               \* None order id
NoValue == -1000000                     \* None for exit_spread / pnl

\* position templates: scenario and the two symbols (create_position arguments)
Templates ==
  { [scenario |-> "a", symbol_a |-> "BTC-PERP", symbol_b |-> "BTCUSDT"],
    [scenario |-> "b", symbol_a |-> "BTCUSDT", symbol_b |-> "BTCUSDT"],
    [scenario |-> "b", symbol_a |-> "btc-swap", symbol_b |-> "BTC-SWAP"] }

VARIABLES
  risk,              \* OrderManager.risk_manager is set (settings given)
  max_positions,     \* RiskManager.max_positions
  has_history,       \* OrderManager.history is set
  positions,         \* OrderManager.positions: id -> Position (status "none": not created)
  active_positions,  \* OrderManager.active_positions (list of ids)
  trades,            \* TradeHistory rows (the SQLite table), in insertion order
  calls,             \* venue calls made by the latest run, in order
  net,               \* net quantity bought (buys - sells) on each venue by the latest run
  trail,             \* statuses assigned to the position by the latest run, in order
  last,              \* the latest run: operation, position, return value, state at its start
  runs,              \* number of entry_order / exit_order runs so far
  now,               \* wall clock (in half days) read by TradeHistory; the rows of an
                     \* OrderManager behaviour are stamped in insertion order
  price_cache,       \* SpreadDetectionEngine.price_cache: key -> PricePoint
  strategy,          \* the strategy object of the trade loop and its arguments
  runtime,           \* the event loop: the shutdown event and where each task or
                     \* coroutine is suspended
  csv                \* rows of the TradeHistory CSV file, followed where a sink can fail

vars == <<risk, max_positions, has_history, positions, active_positions,
          trades, calls, net, trail, last, runs, now, price_cache, strategy, runtime,
          csv>>

Ids == 1..MaxPositions
Venues == {"A", "B"}

\* ------------------------------------------------------------ str helpers
\* str.lower() on the strings the model uses
Lower(s) ==
  CASE s = "FILLED" -> "filled"
    [] s = "CLOSED" -> "closed"
    [] s = "BUY" -> "buy"
    [] s = "SELL" -> "sell"
    [] OTHER -> s

\* str.upper() on the symbols the model uses
Upper(s) ==
  CASE s = "btc-perp" -> "BTC-PERP"
    [] s = "btc-swap" -> "BTC-SWAP"
    [] OTHER -> s

\* "PERP" in s or "SWAP" in s, for upper-cased symbols
HasPerpOrSwap(s) == s \in {"BTC-PERP", "BTC-SWAP"}

\* exact fractions
Frac(n, d) == [n |-> n, d |-> d]

\* no strategy object (current_position 0 is None)
NoStrategy ==
  [scenario |-> "", symbol_a |-> "", symbol_b |-> "", current_position |-> 0]

\* run() was not called
NoRuntime == [shutdown |-> FALSE, pc |-> <<>>]

\* ---------------------------------------------------------------- Position
NoPosition ==
  [status |-> "none", scenario |-> "", symbol_a |-> "", symbol_b |-> "",
   exchange_a |-> "", exchange_b |-> "",
   leg_a_side |-> "", leg_a_quantity |-> 0, leg_b_side |-> "", leg_b_quantity |-> 0,
   entry_price_a |-> 0, entry_price_b |-> 0, entry_spread |-> Frac(0, 1),
   leg_a_order_id |-> NoId, leg_b_order_id |-> NoId,
   exit_spread |-> Frac(NoValue, 1), pnl |-> NoValue]

NewPosition(t) ==
  [NoPosition EXCEPT !.status = "pending", !.scenario = t.scenario,
     !.symbol_a = t.symbol_a, !.symbol_b = t.symbol_b,
     !.exchange_a = "A", !.exchange_b = "B",
     !.leg_a_side = "buy", !.leg_a_quantity = Qty,
     !.leg_b_side = "sell", !.leg_b_quantity = Qty]

is_open(p) == p.status = "opened"

_calculate_spread(p, price_a, price_b) ==
  IF price_b = 0 THEN Frac(0, 1)
  ELSE IF p.scenario = "a" THEN Frac(price_a - price_b, price_b)
  ELSE Frac(price_b - price_a, price_a)

\* variant: _calculate_pnl with leg A long and leg B short in both scenarios
PnlLongShort(p, exit_price_a, exit_price_b) ==
  (exit_price_a - p.entry_price_a) * p.leg_a_quantity
  + (p.entry_price_b - exit_price_b) * p.leg_b_quantity

_calculate_pnl(p, exit_price_a, exit_price_b) ==
  IF p.scenario = "a"
  THEN (p.entry_price_a - exit_price_a) * p.leg_a_quantity
       + (exit_price_b - p.entry_price_b) * p.leg_b_quantity
  ELSE (exit_price_a - p.entry_price_a) * p.leg_a_quantity
       + (p.entry_price_b - exit_price_b) * p.leg_b_quantity

mark_opened(p, entry_price_a, entry_price_b) ==
  [p EXCEPT !.status = "opened",
            !.entry_price_a = entry_price_a,
            !.entry_price_b = entry_price_b,
            !.entry_spread = _calculate_spread(p, entry_price_a, entry_price_b)]

mark_closed(p, exit_price_a, exit_price_b) ==
  [p EXCEPT !.status = "closed",
            !.exit_spread = _calculate_spread(p, exit_price_a, exit_price_b),
            !.pnl = _calculate_pnl(p, exit_price_a, exit_price_b)]

\* variant: mark_error leaving the status as it was
MarkErrorSkipped(p) == p
mark_error(p) == [p EXCEPT !.status = "error"]

\* ------------------------------------------------------------ TradeHistory
NoMetadata == [empty |-> TRUE]

\* the record built by record_trade_event (timestamp left to insertion order)
Event(event_type, id, p, order_type, side, quantity, price, pnl, status, msg, md) ==
  [event_type |-> event_type, position_id |-> id, scenario |-> p.scenario,
   exchange_a |-> p.exchange_a, exchange_b |-> p.exchange_b,
   symbol_a |-> p.symbol_a, symbol_b |-> p.symbol_b,
   order_type |-> order_type, side |-> side, quantity |-> quantity,
   price |-> price, pnl |-> pnl, status |-> status,
   error_message |-> msg, metadata |-> md]

\* an error message: the literal text of the f-string and what is formatted into it
Msg(text, detail) == <<text, detail>>
NoMsg == <<"", "">>

PositionCreatedEvent(id, p) ==
  Event("position_created", id, p, "", "", 0, 0, 0, p.status, NoMsg,
        [leg_a_side |-> p.leg_a_side, leg_a_quantity |-> p.leg_a_quantity,
         leg_b_side |-> p.leg_b_side, leg_b_quantity |-> p.leg_b_quantity])

PositionOpenedEvent(id, p) ==
  Event("position_opened", id, p, "", "", 0, p.entry_spread, 0, "opened", NoMsg,
        [entry_price_a |-> p.entry_price_a, entry_price_b |-> p.entry_price_b,
         leg_a_order_id |-> p.leg_a_order_id, leg_b_order_id |-> p.leg_b_order_id])

PositionClosedEvent(id, p) ==
  Event("position_closed", id, p, "", "", 0, 0,
        IF p.pnl = NoValue THEN 0 ELSE p.pnl, "closed", NoMsg,
        [exit_spread |-> p.exit_spread])

PositionErrorEvent(id, p, msg) ==
  Event("position_error", id, p, "", "", 0, 0, 0, "error", msg, NoMetadata)

OrderPlacedEvent(id, p, side, quantity, price, order_id, exchange, symbol, status, phase, leg) ==
  Event("order_placed", id, p, "market", side, quantity, price, 0, "", NoMsg,
        [leg |-> leg, order_id |-> order_id, exchange |-> exchange,
         symbol |-> symbol, order_status |-> status, phase |-> phase])

OrderRollbackEvent(id, p, original_order_id, rollback_order_id, exchange, symbol, side, quantity, price, status, reason) ==
  Event("order_rollback", id, p, "market", side, quantity, price, 0, status, NoMsg,
        [exchange |-> exchange, symbol |-> symbol, reason |-> reason,
         original_order_id |-> original_order_id,
         rollback_order_id |-> rollback_order_id])

OrderFailedEvent(id, p, exchange, symbol, side, quantity, phase, msg) ==
  Event("order_failed", id, p, "market", side, quantity, 0, 0, "", msg,
        [exchange |-> exchange, symbol |-> symbol, phase |-> phase])

OrderCancelledEvent(id, p, side, quantity, exchange, symbol, order_id, phase) ==
  Event("order_cancelled", id, p, "cancel", side, quantity, 0, 0, "cancelled", NoMsg,
        [exchange |-> exchange, symbol |-> symbol, order_id |-> order_id,
         phase |-> phase])

\* record_insufficient_balance: the event is written for a placeholder position "ALERT"
InsufficientBalanceEvent(exchange, symbol, required, available) ==
  [event_type |-> "insufficient_balance", position_id |-> 0, scenario |-> "alert",
   exchange_a |-> exchange, exchange_b |-> "", symbol_a |-> symbol, symbol_b |-> "",
   order_type |-> "", side |-> "", quantity |-> 0, price |-> 0, pnl |-> 0,
   status |-> "", error_message |-> NoMsg,
   metadata |-> [exchange |-> exchange, symbol |-> symbol, required |-> required,
                 available |-> available,
                 shortfall |-> Frac(required.n - available * required.d, required.d)]]

LifecycleEvents ==
  {"position_created", "position_opened", "position_closed", "position_error"}

\* indices of the rows of position id, oldest first (get_position_history)
get_position_history(rows, id) ==
  { i \in 1..Len(rows) : rows[i].position_id = id }

\* status of the position that load_position folds from the rows; "none" when
\* load_position returns None
load_position_status(rows, id) ==
  LET events == get_position_history(rows, id)
      created == { i \in events : rows[i].event_type = "position_created" }
      lifecycle == { i \in events : rows[i].event_type \in LifecycleEvents }
      latest == CHOOSE i \in lifecycle : \A j \in lifecycle : j <= i
  IN IF events = {} \/ created = {} THEN "none" ELSE rows[latest].status

\* ids of list_positions(status = "opened"); id 0 is the ALERT placeholder
list_positions_opened(rows) ==
  { id \in { rows[i].position_id : i \in 1..Len(rows) } \ {0} :
      load_position_status(rows, id) = "opened" }


\* --------------------------------------------------------- venue responses
\* what a venue call can do: raise, or return.  `filled` is the quantity the
\* order really executed; an order the venue reports filled executed the
\* quantity it reports.  dev is 0 for the plain response of the call and 1
\* for every other response.
Outcome(dev, raised, order_id, status, quantity, price, filled, free) ==
  [dev |-> dev, raised |-> raised, order_id |-> order_id, status |-> status,
   quantity |-> quantity, price |-> price, filled |-> filled, free |-> free]

Raised == Outcome(1, TRUE, NoId, "", 0, 0, 0, 0)

\* place_market_order of an entry or exit leg
PlaceOutcomes(order_id, quantity) ==
  { Outcome(0, FALSE, order_id, "FILLED", quantity, 100, quantity, 0),
    Outcome(1, FALSE, order_id, "closed", quantity - 1, 110, quantity - 1, 0),
    Outcome(1, FALSE, order_id, "FILLED", quantity - 2, 100, quantity - 2, 0),
    Raised }
  \cup { Outcome(1, FALSE, order_id, "new", f, 0, f, 0) : f \in UnfilledFills }

\* a compensating market order that returns fills in full
HedgeOutcomes(order_id, quantity) ==
  {Raised, Outcome(0, FALSE, order_id, "FILLED", quantity, 100, quantity, 0)}

CancelOutcomes(order_id) ==
  {Raised, Outcome(0, FALSE, order_id, "cancelled", 0, 0, 0, 0)}

LeverageOutcomes == {Raised, Outcome(0, FALSE, NoId, "", 0, 0, 0, 0)}

BalanceOutcomes ==
  {Raised, Outcome(0, FALSE, NoId, "", 0, 0, 0, HighBalance),
           Outcome(1, FALSE, NoId, "", 0, 0, 0, LowBalance)}

\* tag: "entry" or "exit" for a leg's order, the reason for a compensating order
Call(venue, op, tag, symbol, side, quantity, order_id, out) ==
  [venue |-> venue, op |-> op, tag |-> tag, symbol |-> symbol, side |-> side,
   quantity |-> quantity, order_id |-> order_id, out |-> out]

\* ------------------------------------------------- the state a run works on
\* pos: the Position object of the run; the other fields are the variables of
\* the same name
World(id) ==
  [pos |-> positions[id], active |-> active_positions, trades |-> trades,
   calls |-> <<>>, net |-> [v \in Venues |-> 0], trail |-> <<>>, devs |-> 0]

\* hist.record_...(...) under `if hist:`
Record(w, e) == IF has_history THEN [w EXCEPT !.trades = Append(@, e)] ELSE w

Called(w, c) == [w EXCEPT !.calls = Append(@, c), !.devs = @ + c.out.dev]

\* the responses a call of the run can still get
Within(w, outcomes) == { o \in outcomes : w.devs + o.dev <= MaxDeviations }

Mark(w, p) == [w EXCEPT !.pos = p, !.trail = Append(@, p.status)]

\* the order id a venue gives to the next order of this run
NextOrderId(w) == 10 * (runs + 1) + Len(w.calls) + 1

\* client.place_market_order(symbol, side, quantity) with outcome o
Place(w, venue, tag, symbol, side, quantity, o) ==
  LET w1 == Called(w, Call(venue, "place_market_order", tag, symbol, side, quantity,
                           NoId, o))
      signed == IF Lower(side) = "buy" THEN o.filled ELSE 0 - o.filled
  IN IF o.raised THEN w1 ELSE [w1 EXCEPT !.net[venue] = @ + signed]

\* ---------------------------------------------------------- OrderManager
\* variant: _opposite_side returning the side it was given
OppositeSideSame(side) == side
_opposite_side(side) == IF Lower(side) = "buy" THEN "sell" ELSE "buy"

\* variant: is_order_filled accepting every status a venue reports
IsOrderFilledAnyStatus(status) == status # ""
\* RiskManager.is_order_filled and the fallback of OrderManager._is_filled
is_order_filled(status) ==
  IF status = "" THEN FALSE ELSE Lower(status) \in {"filled", "closed"}

\* rel_diff > 0.01, with rel_diff = abs(actual - expected) / expected
QuantityMismatch(actual, expected) ==
  LET diff == IF actual >= expected THEN actual - expected ELSE expected - actual
  IN expected > 0 /\ diff * 100 > expected

\* variant: _validate_order_execution accepting every order
ValidateAlways(order, expected_quantity) == TRUE
\* _validate_order_execution returns normally (no ExecutionDiscrepancyError)
_validate_order_execution(order, expected_quantity) ==
  IF risk
  THEN is_order_filled(order.status)
       /\ ~QuantityMismatch(order.quantity, expected_quantity)
  ELSE is_order_filled(order.status)

\* _open_positions_count, evaluated at the start of the run
_open_positions_count ==
  Cardinality({ i \in Ids : \E k \in 1..Len(active_positions) :
                              active_positions[k] = i /\ is_open(positions[i]) }
              \cup (IF has_history THEN list_positions_opened(trades) ELSE {}))

\* variant: check_position_limit comparing with > instead of >=
LimitReachedStrict(current_positions) == current_positions > max_positions
\* check_position_limit raises MaxPositionsError
LimitReached(current_positions) == current_positions >= max_positions

\* variant: _hedge_market_order leaving no record of a placement that raised
HedgeFailureUnrecorded(w, id, venue, symbol, side, quantity, original_order_id, reason) ==
  { LET w1 == Place(w, venue, reason, symbol, side, quantity, o)
    IN IF o.raised
       THEN w1
       ELSE Record(w1, OrderRollbackEvent(id, w.pos, original_order_id, o.order_id,
                                          venue, symbol, side, quantity, o.price,
                                          o.status, reason))
    : o \in Within(w, HedgeOutcomes(NextOrderId(w), quantity)) }
\* the worlds after _hedge_market_order
_hedge_market_order(w, id, venue, symbol, side, quantity, original_order_id, reason) ==
  { LET w1 == Place(w, venue, reason, symbol, side, quantity, o)
    IN IF o.raised
       THEN Record(w1, OrderFailedEvent(id, w.pos, venue, symbol, side, quantity,
                                        reason, Msg("", "venue error")))
       ELSE Record(w1, OrderRollbackEvent(id, w.pos, original_order_id, o.order_id,
                                          venue, symbol, side, quantity, o.price,
                                          o.status, reason))
    : o \in Within(w, HedgeOutcomes(NextOrderId(w), quantity)) }

\* f"{phase}_unconfirmed_cleanup"
CleanupReason(phase) ==
  IF phase = "entry" THEN "entry_unconfirmed_cleanup" ELSE "exit_unconfirmed_cleanup"

\* variant: _cleanup_unconfirmed_order without its cancel attempt
CancelSkipped(w, id, venue, symbol, original_side, quantity, order_id, phase) == {w}
\* the worlds after the cancel attempt of _cleanup_unconfirmed_order
CancelAttempt(w, id, venue, symbol, original_side, quantity, order_id, phase) ==
  IF order_id = NoId THEN {w}
  ELSE { LET w1 == Called(w, Call(venue, "cancel_order", phase, symbol, "", 0, order_id, c))
         IN IF c.raised THEN w1
            ELSE Record(w1, OrderCancelledEvent(id, w.pos, original_side, quantity,
                                                venue, symbol, order_id, phase))
         : c \in Within(w, CancelOutcomes(order_id)) }

\* the worlds after _cleanup_unconfirmed_order
_cleanup_unconfirmed_order(w, id, venue, symbol, original_side, quantity, order_id, phase) ==
  UNION { _hedge_market_order(w1, id, venue, symbol, _opposite_side(original_side),
                              quantity, order_id, CleanupReason(phase))
          : w1 \in CancelAttempt(w, id, venue, symbol, original_side, quantity,
                                 order_id, phase) }

\* a finished run: the world and what the coroutine did ("true", "false", "raised")
Done(w, ret) == [w |-> w, ret |-> ret]

\* ------------------------------------------------------------ RiskManager
\* variant: set_leverage_if_needed making the call for every symbol
SetLeverageAlways(w, venue, symbol) ==
  { Called(w, Call(venue, "set_leverage", "entry", symbol, "", Leverage, NoId, o))
    : o \in Within(w, LeverageOutcomes) }
\* the worlds after set_leverage_if_needed: the call is made for a perpetual
\* symbol only, and its failure is logged and swallowed
set_leverage_if_needed(w, venue, symbol) ==
  IF HasPerpOrSwap(Upper(symbol))
  THEN { Called(w, Call(venue, "set_leverage", "entry", symbol, "", Leverage, NoId, o))
         : o \in Within(w, LeverageOutcomes) }
  ELSE {w}

\* variant: check_balance_sufficiency with the comparison reversed
InsufficientInverted(available, quantity, price) == available * Leverage > quantity * price
\* available < required, with required = (quantity * price) / leverage
Insufficient(available, quantity, price) == available * Leverage < quantity * price

\* check_balance_sufficiency: the finished checks, "ok" (returned True),
\* "insufficient" (InsufficientBalanceError) or "raised" (get_balance failed
\* and the exception is re-raised)
check_balance_sufficiency(w, venue, symbol, quantity, price) ==
  { LET w1 == Called(w, Call(venue, "get_balance", "entry", "USDT", "", 0, NoId, o))
    IN IF o.raised THEN Done(w1, "raised")
       ELSE IF price = 0 THEN Done(w1, "ok")
       ELSE IF Insufficient(o.free, quantity, price)
       THEN Done(IF has_history
                 THEN [w1 EXCEPT !.trades =
                         Append(@, InsufficientBalanceEvent(
                                     venue, symbol,
                                     Frac(quantity * price, Leverage), o.free))]
                 ELSE w1,
                 "insufficient")
       ELSE Done(w1, "ok")
    : o \in Within(w, BalanceOutcomes) }

\* the awaited part of the pre-trade block (manager.py:185-206): leverage
\* setup of both legs, then the balance check of leg A, then of leg B
LeverageAndBalance(w, price_hint_a, price_hint_b) ==
  LET lev == UNION { set_leverage_if_needed(w1, w.pos.exchange_b, w.pos.symbol_b)
                     : w1 \in set_leverage_if_needed(w, w.pos.exchange_a,
                                                     w.pos.symbol_a) }
      balA == UNION { check_balance_sufficiency(
                        w1, w.pos.exchange_a, w.pos.symbol_a,
                        w.pos.leg_a_quantity, price_hint_a) : w1 \in lev }
  IN UNION { IF d.ret = "ok"
             THEN check_balance_sufficiency(
                    d.w, w.pos.exchange_b, w.pos.symbol_b,
                    w.pos.leg_b_quantity, price_hint_b)
             ELSE {d}
             : d \in balA }

\* variant: the pre-trade block with leverage setup ahead of the limit check
RiskChecksLeverageFirst(w, price_hint_a, price_hint_b) ==
  IF ~risk THEN {Done(w, "ok")}
  ELSE LET lev == UNION { set_leverage_if_needed(w1, w.pos.exchange_b, w.pos.symbol_b)
                          : w1 \in set_leverage_if_needed(w, w.pos.exchange_a,
                                                          w.pos.symbol_a) }
           balA == UNION { check_balance_sufficiency(
                             w1, w.pos.exchange_a, w.pos.symbol_a,
                             w.pos.leg_a_quantity, price_hint_a) : w1 \in lev }
       IN IF LimitReached(_open_positions_count) THEN { Done(w1, "limit") : w1 \in lev }
          ELSE UNION { IF d.ret = "ok"
                       THEN check_balance_sufficiency(
                              d.w, w.pos.exchange_b, w.pos.symbol_b,
                              w.pos.leg_b_quantity, price_hint_b)
                       ELSE {d}
                       : d \in balA }
\* the pre-trade block of entry_order (manager.py:181-213): the finished
\* checks, "ok", "limit", "insufficient" or "raised"
RiskChecks(w, price_hint_a, price_hint_b) ==
  IF ~risk THEN {Done(w, "ok")}
  ELSE IF LimitReached(_open_positions_count) THEN {Done(w, "limit")}
  ELSE LeverageAndBalance(w, price_hint_a, price_hint_b)

\* str(e) of the exception the pre-trade block catches
RiskMessage(ret) ==
  IF ret = "limit"
  THEN Msg("Maximum positions limit reached: ", <<_open_positions_count, max_positions>>)
  ELSE Msg("Insufficient USDT balance on ", "")

\* ------------------------------------------------------------ entry_order
\* leg B of entry_order (manager.py:287-400), after leg A was validated
EntryLegB(w, id, order_a) ==
  UNION {
    LET p == w.pos
        w1 == Place(w, p.exchange_b, "entry", p.symbol_b, p.leg_b_side,
                    p.leg_b_quantity, ob)
    IN IF ob.raised
       THEN { Done(Mark(Record(h, PositionErrorEvent(id, p,
                          Msg("Leg B failed, rolled back leg A: ", "venue error"))),
                        mark_error(p)), "false")
              : h \in _hedge_market_order(
                        Record(w1, OrderFailedEvent(id, p, p.exchange_b, p.symbol_b,
                                   p.leg_b_side, p.leg_b_quantity, "entry",
                                   Msg("", "venue error"))),
                        id, p.exchange_a, p.symbol_a, _opposite_side(p.leg_a_side),
                        p.leg_a_quantity, order_a.order_id, "entry_leg_b_failed") }
       ELSE LET p2 == [p EXCEPT !.leg_b_order_id = ob.order_id]
                w2 == Record([w1 EXCEPT !.pos = p2],
                             OrderPlacedEvent(id, p2, p2.leg_b_side, p2.leg_b_quantity,
                                              ob.price, ob.order_id, p2.exchange_b,
                                              p2.symbol_b, ob.status, "entry", "b"))
            IN IF ~_validate_order_execution(ob, p2.leg_b_quantity)
               THEN { Done(Mark(Record(h, PositionErrorEvent(id, p2,
                                  Msg("Leg B not confirmed: ", ob.status))),
                                mark_error(p2)), "false")
                      : h \in UNION {
                          _hedge_market_order(c, id, p2.exchange_a, p2.symbol_a,
                                              _opposite_side(p2.leg_a_side),
                                              p2.leg_a_quantity, order_a.order_id,
                                              "entry_leg_b_unconfirmed")
                          : c \in _cleanup_unconfirmed_order(
                                    w2, id, p2.exchange_b, p2.symbol_b, p2.leg_b_side,
                                    p2.leg_b_quantity, ob.order_id, "entry") } }
               ELSE LET p3 == mark_opened(p2, order_a.price, ob.price)
                        w3 == Mark(w2, p3)
                        w4 == IF \E k \in 1..Len(w3.active) : w3.active[k] = id
                              THEN w3
                              ELSE [w3 EXCEPT !.active = Append(@, id)]
                    IN { Done(Record(w4, PositionOpenedEvent(id, p3)), "true") }
    : ob \in Within(w, PlaceOutcomes(NextOrderId(w), w.pos.leg_b_quantity)) }

\* the orders of entry_order (manager.py:215-400), after the pre-trade block
EntryLegs(w, id) ==
  UNION {
    LET p == w.pos
        w1 == Place(w, p.exchange_a, "entry", p.symbol_a, p.leg_a_side,
                    p.leg_a_quantity, oa)
    IN IF oa.raised
       THEN { Done(Mark(Record(Record(w1,
                      OrderFailedEvent(id, p, p.exchange_a, p.symbol_a, p.leg_a_side,
                                       p.leg_a_quantity, "entry", Msg("", "venue error"))),
                      PositionErrorEvent(id, p, Msg("Leg A failed: ", "venue error"))),
                    mark_error(p)), "false") }
       ELSE LET p2 == [p EXCEPT !.leg_a_order_id = oa.order_id]
                w2 == Record([w1 EXCEPT !.pos = p2],
                             OrderPlacedEvent(id, p2, p2.leg_a_side, p2.leg_a_quantity,
                                              oa.price, oa.order_id, p2.exchange_a,
                                              p2.symbol_a, oa.status, "entry", "a"))
            IN IF ~_validate_order_execution(oa, p2.leg_a_quantity)
               THEN { Done(Mark(Record(c, PositionErrorEvent(id, p2,
                                  Msg("Leg A not confirmed: ", oa.status))),
                                mark_error(p2)), "false")
                      : c \in _cleanup_unconfirmed_order(
                                w2, id, p2.exchange_a, p2.symbol_a, p2.leg_a_side,
                                p2.leg_a_quantity, oa.order_id, "entry") }
               ELSE EntryLegB(w2, id, oa)
    : oa \in Within(w, PlaceOutcomes(NextOrderId(w), w.pos.leg_a_quantity)) }

\* every way entry_order can finish on the state w (the position, the active
\* list and the history as they are when it is called)
EntryOrderOn(w, id, price_hint_a, price_hint_b) ==
  UNION {
    IF d.ret = "ok" THEN EntryLegs(d.w, id)
    ELSE IF d.ret = "raised" THEN {d}
    ELSE { Done(Mark(Record(d.w, PositionErrorEvent(id, d.w.pos, RiskMessage(d.ret))),
                     mark_error(d.w.pos)), "false") }
    : d \in RiskChecks(w, price_hint_a, price_hint_b) }

\* every way entry_order(position id, price hints) can finish
entry_order(id, price_hint_a, price_hint_b) ==
  EntryOrderOn(World(id), id, price_hint_a, price_hint_b)

\* ------------------------------------------------------------- exit_order
\* leg B of exit_order (manager.py:610-722), after exit leg A was validated
ExitLegB(w, id, exit_order_a) ==
  UNION {
    LET p == w.pos
        exit_side_b == _opposite_side(p.leg_b_side)
        w1 == Place(w, p.exchange_b, "exit", p.symbol_b, exit_side_b,
                    p.leg_b_quantity, ob)
    IN IF ob.raised
       THEN { Done(Mark(Record(h, PositionErrorEvent(id, p,
                          Msg("Exit leg B failed: ", "venue error"))),
                        mark_error(p)), "false")
              : h \in _hedge_market_order(
                        Record(w1, OrderFailedEvent(id, p, p.exchange_b, p.symbol_b,
                                   exit_side_b, p.leg_b_quantity, "exit",
                                   Msg("", "venue error"))),
                        id, p.exchange_a, p.symbol_a, p.leg_a_side,
                        p.leg_a_quantity, exit_order_a.order_id,
                        "exit_leg_b_failed_reopen_leg_a") }
       ELSE LET w2 == Record(w1,
                             OrderPlacedEvent(id, p, exit_side_b, p.leg_b_quantity,
                                              ob.price, ob.order_id, p.exchange_b,
                                              p.symbol_b, ob.status, "exit", "b"))
            IN IF ~_validate_order_execution(ob, p.leg_b_quantity)
               THEN { Done(Mark(Record(h, PositionErrorEvent(id, p,
                                  Msg("Exit leg B not confirmed: ", ob.status))),
                                mark_error(p)), "false")
                      : h \in UNION {
                          _hedge_market_order(c, id, p.exchange_a, p.symbol_a,
                                              p.leg_a_side, p.leg_a_quantity,
                                              exit_order_a.order_id,
                                              "exit_leg_b_unconfirmed_reopen_leg_a")
                          : c \in _cleanup_unconfirmed_order(
                                    w2, id, p.exchange_b, p.symbol_b, exit_side_b,
                                    p.leg_b_quantity, ob.order_id, "exit") } }
               ELSE LET p3 == mark_closed(p, exit_order_a.price, ob.price)
                        w3 == Mark(w2, p3)
                        w4 == [w3 EXCEPT !.active = SelectSeq(@, LAMBDA x : x # id)]
                    IN { Done(Record(w4, PositionClosedEvent(id, p3)), "true") }
    : ob \in Within(w, PlaceOutcomes(NextOrderId(w), w.pos.leg_b_quantity)) }

\* every way exit_order(position id) can finish
exit_order(id) ==
  LET w0 == World(id)
      p0 == w0.pos
  IN IF p0.leg_a_order_id = NoId \/ p0.leg_b_order_id = NoId
     THEN {Done(w0, "false")}
     ELSE UNION {
       LET p == [p0 EXCEPT !.status = "closing"]
           w == Mark(w0, p)
           exit_side_a == _opposite_side(p.leg_a_side)
           w1 == Place(w, p.exchange_a, "exit", p.symbol_a, exit_side_a,
                       p.leg_a_quantity, oa)
       IN IF oa.raised
          THEN { Done(Mark(Record(Record(w1,
                         OrderFailedEvent(id, p, p.exchange_a, p.symbol_a, exit_side_a,
                                          p.leg_a_quantity, "exit", Msg("", "venue error"))),
                         PositionErrorEvent(id, p, Msg("Exit leg A failed: ", "venue error"))),
                       mark_error(p)), "false") }
          ELSE LET w2 == Record(w1,
                                OrderPlacedEvent(id, p, exit_side_a, p.leg_a_quantity,
                                                 oa.price, oa.order_id, p.exchange_a,
                                                 p.symbol_a, oa.status, "exit", "a"))
               IN IF ~_validate_order_execution(oa, p.leg_a_quantity)
                  THEN { Done(Mark(Record(c, PositionErrorEvent(id, p,
                                     Msg("Exit leg A not confirmed: ", oa.status))),
                                   mark_error(p)), "false")
                         : c \in _cleanup_unconfirmed_order(
                                   w2, id, p.exchange_a, p.symbol_a, exit_side_a,
                                   p.leg_a_quantity, oa.order_id, "exit") }
                  ELSE ExitLegB(w2, id, oa)
       : oa \in Within(w0, PlaceOutcomes(NextOrderId(w0), p0.leg_a_quantity)) }

\* ---------------------------------------------------------------- actions
NoRun ==
  [op |-> "none", id |-> 0, ret |-> "none", base |-> 0, status_before |-> "none",
   open_before |-> 0, active_before |-> FALSE,
   price_hint_a |-> 0, price_hint_b |-> 0]

\* what is known of a run when it starts
RunStart(op, id, price_hint_a, price_hint_b) ==
  [op |-> op, id |-> id, ret |-> "none", base |-> Len(trades),
   status_before |-> positions[id].status,
   open_before |-> Cardinality({ i \in Ids : is_open(positions[i]) }),
   active_before |-> \E k \in 1..Len(active_positions) : active_positions[k] = id,
   price_hint_a |-> price_hint_a, price_hint_b |-> price_hint_b]

Init ==
  /\ risk \in BOOLEAN
  /\ max_positions \in (IF risk THEN MaxPositionsSettings ELSE {0})
  /\ has_history \in BOOLEAN
  /\ positions = [i \in Ids |-> NoPosition]
  /\ active_positions = <<>>
  /\ trades = <<>>
  /\ calls = <<>>
  /\ net = [v \in Venues |-> 0]
  /\ trail = <<>>
  /\ last = NoRun
  /\ runs = 0
  /\ now = 0
  /\ price_cache = <<>>
  /\ strategy = NoStrategy
  /\ runtime = NoRuntime
  /\ csv = <<>>

\* OrderManager.create_position
CreatePosition(id, t) ==
  /\ last.op = "none"
  /\ positions[id].status = "none"
  /\ \A j \in Ids : j < id => positions[j].status # "none"
  /\ positions' = [positions EXCEPT ![id] = NewPosition(t)]
  /\ trades' = IF has_history
               THEN Append(trades, PositionCreatedEvent(id, NewPosition(t)))
               ELSE trades
  /\ UNCHANGED <<risk, max_positions, has_history, active_positions,
                 calls, net, trail, last, runs, now, price_cache, strategy, runtime, csv>>

\* the run d of operation op on position id replaces the state
Finish(d, start) ==
  /\ positions' = [positions EXCEPT ![start.id] = d.w.pos]
  /\ active_positions' = d.w.active
  /\ trades' = d.w.trades
  /\ calls' = d.w.calls
  /\ net' = d.w.net
  /\ trail' = d.w.trail
  /\ last' = [start EXCEPT !.ret = d.ret]
  /\ runs' = runs + 1
  /\ UNCHANGED <<risk, max_positions, has_history, now, price_cache, strategy, runtime, csv>>

\* OrderManager.entry_order
EntryOrder(id) ==
  /\ last.op = "none"
  /\ runs < MaxRuns
  /\ positions[id].status # "none"
  /\ \E price_hint_a \in PriceHints, price_hint_b \in PriceHints :
       \E d \in entry_order(id, price_hint_a, price_hint_b) :
         Finish(d, RunStart("entry", id, price_hint_a, price_hint_b))

\* OrderManager.exit_order
ExitOrder(id) ==
  /\ last.op = "none"
  /\ runs < MaxRuns
  /\ positions[id].status # "none"
  /\ \E d \in exit_order(id) : Finish(d, RunStart("exit", id, 0, 0))

\* the coroutine hands its return value to the caller; the manager keeps
\* positions, active_positions and the history, nothing else of the run
Return ==
  /\ last.op # "none"
  /\ calls' = <<>>
  /\ net' = [v \in Venues |-> 0]
  /\ trail' = <<>>
  /\ last' = NoRun
  /\ UNCHANGED <<risk, max_positions, has_history, positions, active_positions,
                 trades, runs, now, price_cache, strategy, runtime, csv>>

Next ==
  \/ \E id \in Ids, t \in Templates : CreatePosition(id, t)
  \/ \E id \in Ids : EntryOrder(id)
  \/ \E id \in Ids : ExitOrder(id)
  \/ Return

Spec == Init /\ [][Next]_vars

\* ------------------------------------------------- the latest run, observed
LastPos == positions[last.id]

\* the history rows the latest run wrote
RunEvents == SubSeq(trades, last.base + 1, Len(trades))

EventsOf(event_type) ==
  { k \in 1..Len(RunEvents) : RunEvents[k].event_type = event_type }

PlaceCalls == { k \in 1..Len(calls) : calls[k].op = "place_market_order" }

\* the order of a leg (tag "entry" or "exit") sent to a venue
LegCalls(venue, tag) ==
  { k \in PlaceCalls : calls[k].venue = venue /\ calls[k].tag = tag }

\* compensating orders (cleanup, rollback, re-open) sent to a venue
CompensationCalls(venue) ==
  { k \in PlaceCalls : calls[k].venue = venue /\ calls[k].tag \notin {"entry", "exit"} }

Reverse(side) == IF side = "buy" THEN "sell" ELSE "buy"

ReportedFilled(o) == ~o.raised /\ Lower(o.status) \in {"filled", "closed"}

WithinOnePercent(actual, requested) ==
  IF actual >= requested
  THEN (actual - requested) * 100 <= requested
  ELSE (requested - actual) * 100 <= requested

\* the order was validated as filled by the manager in use
Validated(o, requested) ==
  ReportedFilled(o) /\ (risk => WithinOnePercent(o.quantity, requested))

\* leg A of the latest entry run was placed and validated
EntryLegAValidated ==
  /\ last.op = "entry"
  /\ \E a \in LegCalls("A", "entry") : Validated(calls[a].out, LastPos.leg_a_quantity)

\* C1: when entry_order returns (an unfilled order may have filled anything up
\* to the requested quantity, every compensating order fills in full), either
\* the position is OPENED with both legs sent with the intended side and
\* quantity and reported filled, or it is ERROR and the run left a net quantity
\* of zero on venue A and on venue B.
C1_BothOrNothing ==
  ( /\ last.op = "entry"
    /\ last.ret \in {"true", "false"}
    /\ \A v \in Venues : \A k \in CompensationCalls(v) :
         ~calls[k].out.raised /\ calls[k].out.filled = calls[k].quantity )
  => \/ /\ LastPos.status = "opened"
        /\ \E a \in LegCalls("A", "entry") :
             /\ calls[a].side = LastPos.leg_a_side
             /\ calls[a].quantity = LastPos.leg_a_quantity
             /\ ReportedFilled(calls[a].out)
        /\ \E b \in LegCalls("B", "entry") :
             /\ calls[b].side = LastPos.leg_b_side
             /\ calls[b].quantity = LastPos.leg_b_quantity
             /\ ReportedFilled(calls[b].out)
     \/ /\ LastPos.status = "error"
        /\ net["A"] = 0
        /\ net["B"] = 0

\* C2: if an entry run opens the position, the history holds an order_placed
\* record for leg A and one for leg B with order status filled or closed
\* (case-insensitive), and each leg's reported quantity is within 1% of the
\* requested quantity, with or without a risk manager.
C2_OpenedLegsConfirmed ==
  (last.op = "entry" /\ last.ret = "true" /\ has_history)
  => /\ LastPos.status = "opened"
     /\ \A leg \in {"a", "b"} :
          \E k \in EventsOf("order_placed") :
            /\ RunEvents[k].metadata.leg = leg
            /\ Lower(RunEvents[k].metadata.order_status) \in {"filled", "closed"}
     /\ \A a \in LegCalls("A", "entry") :
          WithinOnePercent(calls[a].out.quantity, LastPos.leg_a_quantity)
     /\ \A b \in LegCalls("B", "entry") :
          WithinOnePercent(calls[b].out.quantity, LastPos.leg_b_quantity)

\* order_rollback rows of the latest run for a venue
RollbackRows(venue) ==
  { k \in EventsOf("order_rollback") : RunEvents[k].metadata.exchange = venue }

\* order_failed rows of the latest run for a compensating order on a venue
FailedCompensationRows(venue) ==
  { k \in EventsOf("order_failed") :
      /\ RunEvents[k].metadata.exchange = venue
      /\ RunEvents[k].metadata.phase \notin {"entry", "exit"} }

\* C3 (as stated): an entry run that ends in ERROR after leg A was validated
\* leaves exactly one order_rollback row for venue A, with the side opposite to
\* leg A and leg A's quantity.
C3_OneRollbackOnA ==
  (EntryLegAValidated /\ last.ret = "false" /\ has_history)
  => /\ Cardinality(RollbackRows("A")) = 1
     /\ \A k \in RollbackRows("A") :
          /\ RunEvents[k].side = Reverse(LastPos.leg_a_side)
          /\ RunEvents[k].quantity = LastPos.leg_a_quantity

\* C3 (amended): an entry run that ends in ERROR after leg A was validated
\* sends exactly one compensating order to venue A, with the side opposite to
\* leg A and leg A's quantity, and the history holds exactly one row for it:
\* order_rollback if the placement returned, order_failed if it raised.
C3_OneCompensationRowOnA ==
  (EntryLegAValidated /\ last.ret = "false" /\ has_history)
  => /\ Cardinality(CompensationCalls("A")) = 1
     /\ \A c \in CompensationCalls("A") :
          LET rows == IF calls[c].out.raised
                      THEN FailedCompensationRows("A")
                      ELSE RollbackRows("A")
              none == IF calls[c].out.raised
                      THEN RollbackRows("A")
                      ELSE FailedCompensationRows("A")
          IN /\ calls[c].side = Reverse(LastPos.leg_a_side)
             /\ calls[c].quantity = LastPos.leg_a_quantity
             /\ Cardinality(rows) = 1
             /\ none = {}
             /\ \A k \in rows :
                  /\ RunEvents[k].side = Reverse(LastPos.leg_a_side)
                  /\ RunEvents[k].quantity = LastPos.leg_a_quantity

\* C3 witness: leg A validated, leg B failed, and the rollback on venue A raised
C3_Witness ==
  /\ EntryLegAValidated
  /\ last.ret = "false"
  /\ has_history
  /\ \E c \in CompensationCalls("A") : calls[c].out.raised
  /\ Cardinality(FailedCompensationRows("A")) = 1

Rank(status) ==
  CASE status = "none" -> 0
    [] status = "pending" -> 1
    [] status = "opened" -> 2
    [] status = "closing" -> 3
    [] status = "closed" -> 4
    [] OTHER -> 5

Forward(from, to) ==
  IF from = "error" THEN to = "error"
  ELSE IF from = "closed" THEN to = "closed"
  ELSE to = "error" \/ Rank(to) >= Rank(from)

\* C4: over any sequence of create_position, entry_order and exit_order calls
\* a position's status only moves forward along PENDING < OPENED < CLOSING <
\* CLOSED or to ERROR, and ERROR and CLOSED are never left.
C4_StatusMonotone ==
  [][\A i \in Ids : Forward(positions[i].status, positions'[i].status)]_vars

\* C5: entry_order and exit_order never raise; when get_balance or an order
\* placement fails the run returns False with the position in ERROR.
C5_NeverRaises ==
  /\ last.ret # "raised"
  /\ (last.op # "none"
      /\ \E k \in 1..Len(calls) :
           calls[k].op \in {"get_balance", "place_market_order"} /\ calls[k].out.raised)
     => (last.ret = "false" /\ LastPos.status = "error")

\* C6: with a risk manager, an entry_order that starts with at least
\* max_positions positions open returns False, places no order, records one
\* position_error whose message contains "Maximum positions" and leaves the
\* position in ERROR; with max_positions = 0 that is every entry.
C6_LimitBlocksEntry ==
  (last.op = "entry" /\ risk /\ last.open_before >= max_positions)
  => /\ last.ret = "false"
     /\ PlaceCalls = {}
     /\ LastPos.status = "error"
     /\ has_history =>
          /\ Len(RunEvents) = 1
          /\ RunEvents[1].event_type = "position_error"
          /\ RunEvents[1].position_id = last.id
          /\ RunEvents[1].error_message[1] = "Maximum positions limit reached: "

\* C6 witness: one position is open, max_positions is 1, and the entry of
\* another, pending position was refused
C6_Witness ==
  /\ last.op = "entry"
  /\ risk
  /\ has_history
  /\ max_positions = 1
  /\ last.open_before = 1
  /\ last.status_before = "pending"
  /\ last.ret = "false"
  /\ LastPos.status = "error"
  /\ Len(RunEvents) = 1

\* get_balance calls of the latest run that returned a free balance below the
\* margin required for the leg of their venue, whose price hint is present
ShortBalanceCalls ==
  { k \in 1..Len(calls) :
      /\ calls[k].op = "get_balance"
      /\ ~calls[k].out.raised
      /\ LET hint == IF calls[k].venue = "A" THEN last.price_hint_a
                     ELSE last.price_hint_b
             quantity == IF calls[k].venue = "A" THEN LastPos.leg_a_quantity
                         ELSE LastPos.leg_b_quantity
         IN hint # 0 /\ calls[k].out.free * Leverage < quantity * hint }

\* C7: with a risk manager and a price hint for the leg, a free USDT balance
\* below quantity * price_hint / leverage on leg A's or leg B's venue makes
\* entry_order place no order, record insufficient_balance with required,
\* available and shortfall = required - available, record position_error,
\* return False and leave the position in ERROR.
C7_InsufficientBalance ==
  (last.op = "entry" /\ risk /\ ShortBalanceCalls # {})
  => /\ last.ret = "false"
     /\ PlaceCalls = {}
     /\ LastPos.status = "error"
     /\ has_history =>
          \A k \in ShortBalanceCalls :
            LET quantity == IF calls[k].venue = "A" THEN LastPos.leg_a_quantity
                            ELSE LastPos.leg_b_quantity
                hint == IF calls[k].venue = "A" THEN last.price_hint_a
                        ELSE last.price_hint_b
                md == RunEvents[1].metadata
            IN /\ Len(RunEvents) = 2
               /\ RunEvents[1].event_type = "insufficient_balance"
               /\ md.exchange = calls[k].venue
               /\ md.required = Frac(quantity * hint, Leverage)
               /\ md.available = calls[k].out.free
               /\ md.shortfall.d = md.required.d
               /\ md.shortfall.n = md.required.n - md.available * md.required.d
               /\ RunEvents[2].event_type = "position_error"
               /\ RunEvents[2].position_id = last.id

\* C7 witness: leg A's venue had enough, leg B's venue was short
C7_Witness ==
  /\ last.op = "entry"
  /\ risk
  /\ has_history
  /\ \E k \in ShortBalanceCalls : calls[k].venue = "B"
  /\ last.ret = "false"
  /\ Len(RunEvents) = 2
  /\ RunEvents[1].event_type = "insufficient_balance"

\* leg A validated and leg B's place_market_order raised, in the latest entry run
EntryLegBRaised ==
  /\ EntryLegAValidated
  /\ \E b \in LegCalls("B", "entry") : calls[b].out.raised

\* C8 (as stated): when leg A is confirmed and leg B's placement raises, the
\* run records order_placed (leg A), order_failed (leg B), order_rollback on
\* venue A (opposite side, leg A's quantity), position_error, in this order;
\* venue A gets two market orders and venue B one; the position ends in ERROR
\* and is not in the active set.
C8_LegBRaises ==
  (EntryLegBRaised /\ has_history)
  => /\ Len(RunEvents) = 4
     /\ RunEvents[1].event_type = "order_placed"
     /\ RunEvents[1].metadata.leg = "a"
     /\ RunEvents[2].event_type = "order_failed"
     /\ RunEvents[2].metadata.exchange = LastPos.exchange_b
     /\ RunEvents[3].event_type = "order_rollback"
     /\ RunEvents[3].metadata.exchange = LastPos.exchange_a
     /\ RunEvents[3].side = Reverse(LastPos.leg_a_side)
     /\ RunEvents[3].quantity = LastPos.leg_a_quantity
     /\ RunEvents[4].event_type = "position_error"
     /\ Cardinality({ k \in PlaceCalls : calls[k].venue = "A" }) = 2
     /\ Cardinality({ k \in PlaceCalls : calls[k].venue = "B" }) = 1
     /\ LastPos.status = "error"
     /\ ~\E k \in 1..Len(active_positions) : active_positions[k] = last.id

\* C8 (amended): as C8, but the third record is order_rollback if the rollback
\* placement returned and order_failed (phase entry_leg_b_failed) if it
\* raised, and the run does not add the position to the active set: it is
\* there afterwards only if it was there before the run.
C8_LegBRaisesAmended ==
  (EntryLegBRaised /\ has_history)
  => /\ Len(RunEvents) = 4
     /\ RunEvents[1].event_type = "order_placed"
     /\ RunEvents[1].metadata.leg = "a"
     /\ RunEvents[2].event_type = "order_failed"
     /\ RunEvents[2].metadata.exchange = LastPos.exchange_b
     /\ RunEvents[2].metadata.phase = "entry"
     /\ \A c \in CompensationCalls("A") :
          IF calls[c].out.raised
          THEN /\ RunEvents[3].event_type = "order_failed"
               /\ RunEvents[3].metadata.phase = "entry_leg_b_failed"
          ELSE RunEvents[3].event_type = "order_rollback"
     /\ RunEvents[3].metadata.exchange = LastPos.exchange_a
     /\ RunEvents[3].side = Reverse(LastPos.leg_a_side)
     /\ RunEvents[3].quantity = LastPos.leg_a_quantity
     /\ RunEvents[4].event_type = "position_error"
     /\ Cardinality({ k \in PlaceCalls : calls[k].venue = "A" }) = 2
     /\ Cardinality(CompensationCalls("A")) = 1
     /\ Cardinality({ k \in PlaceCalls : calls[k].venue = "B" }) = 1
     /\ LastPos.status = "error"
     /\ (\E k \in 1..Len(active_positions) : active_positions[k] = last.id)
          => last.active_before

\* C8 witness: leg B raised and the rollback on venue A was placed and recorded
C8_Witness ==
  /\ EntryLegBRaised
  /\ has_history
  /\ \E c \in CompensationCalls("A") : ~calls[c].out.raised
  /\ Len(RunEvents) = 4
  /\ RunEvents[3].event_type = "order_rollback"
  /\ LastPos.status = "error"

\* both entry placements returned, leg A was validated and leg B was not
EntryLegBUnconfirmed ==
  /\ EntryLegAValidated
  /\ \E b \in LegCalls("B", "entry") :
       ~calls[b].out.raised /\ ~Validated(calls[b].out, LastPos.leg_b_quantity)

\* the calls that follow leg B's order are cancel_order on venue B for leg B's
\* order id, the reverse market order on venue B, the reverse market order on
\* venue A, and nothing else
CompensationCallsInOrder ==
  LET n == Len(calls)
  IN /\ n >= 4
     /\ (n - 3) \in LegCalls("B", "entry")
     /\ calls[n - 2].op = "cancel_order"
     /\ calls[n - 2].venue = "B"
     /\ calls[n - 2].order_id = calls[n - 3].out.order_id
     /\ calls[n - 2].order_id = LastPos.leg_b_order_id
     /\ (n - 1) \in CompensationCalls("B")
     /\ calls[n - 1].side = Reverse(LastPos.leg_b_side)
     /\ calls[n - 1].quantity = LastPos.leg_b_quantity
     /\ n \in CompensationCalls("A")
     /\ calls[n].side = Reverse(LastPos.leg_a_side)
     /\ calls[n].quantity = LastPos.leg_a_quantity

CompensationRow(row, c) ==
  /\ row.event_type = (IF calls[c].out.raised THEN "order_failed" ELSE "order_rollback")
  /\ row.metadata.exchange = calls[c].venue
  /\ row.side = calls[c].side
  /\ row.quantity = calls[c].quantity
  /\ calls[c].out.raised => row.metadata.phase = calls[c].tag
  /\ ~calls[c].out.raised => row.metadata.reason = calls[c].tag

C10_ExitCloses ==
  /\ (last.op = "exit" /\ (last.ret = "true" \/ LastPos.status = "closed"))
     => /\ last.ret = "true"
        /\ LastPos.status = "closed"
        /\ Len(calls) = 2
        /\ 1 \in LegCalls("A", "exit")
        /\ calls[1].side = Reverse(LastPos.leg_a_side)
        /\ calls[1].quantity = LastPos.leg_a_quantity
        /\ Validated(calls[1].out, LastPos.leg_a_quantity)
        /\ 2 \in LegCalls("B", "exit")
        /\ calls[2].side = Reverse(LastPos.leg_b_side)
        /\ calls[2].quantity = LastPos.leg_b_quantity
        /\ Validated(calls[2].out, LastPos.leg_b_quantity)
        /\ trail = <<"closing", "closed">>
        /\ ~\E k \in 1..Len(active_positions) : active_positions[k] = last.id
        /\ LastPos.pnl # NoValue
        /\ has_history =>
             /\ Len(RunEvents) = 3
             /\ RunEvents[3].event_type = "position_closed"
             /\ RunEvents[3].position_id = last.id
  /\ (last.op = "exit"
      /\ (LastPos.leg_a_order_id = NoId \/ LastPos.leg_b_order_id = NoId))
     => /\ last.ret = "false"
        /\ calls = <<>>
        /\ trail = <<>>
        /\ LastPos.status = last.status_before
        /\ RunEvents = <<>>

\* C10 witness: an opened position was closed by exit_order
C10_Witness ==
  /\ last.op = "exit"
  /\ last.ret = "true"
  /\ last.status_before = "opened"
  /\ LastPos.status = "closed"
  /\ LastPos.pnl # NoValue
  /\ Len(calls) = 2

\* C10 witness of the second part: exit_order on a position without order ids
C10_WitnessNoIds ==
  /\ last.op = "exit"
  /\ LastPos.leg_a_order_id = NoId
  /\ last.ret = "false"

\* C11: an exit run on an OPENED position that ends in ERROR (an unconfirmed
\* exit order may have filled anything up to the requested quantity, every
\* compensating order fills in full) leaves the holdings as they were before
\* the run: the run's net quantity is zero on venue A and on venue B.
C11_ExitRestoresHedge ==
  ( /\ last.op = "exit"
    /\ last.status_before = "opened"
    /\ LastPos.status = "error"
    /\ \A v \in Venues : \A k \in CompensationCalls(v) :
         ~calls[k].out.raised /\ calls[k].out.filled = calls[k].quantity )
  => /\ net["A"] = 0
     /\ net["B"] = 0

\* ------------------------------------------------ TradeHistory on its own
\* The trades table written directly (record_... calls and new TradeHistory
\* objects on the same data directory).  A row carries the clock reading of
\* its record_trade_event call; the clock never goes back, and two records
\* can read the same value.  SQLite's sorter breaks ties of ORDER BY timestamp
\* by visiting order (rowid), so get_position_history is in insertion order.
MaxRows == 3               \* rows recorded in one behaviour
MaxClock == 3              \* clock readings 0..MaxClock
Retention == 2             \* timedelta(hours=24), in half days
EntryPrices == {100, 110}  \* entry_price_a of a recorded opening

\* the record with its timestamp column
Stamped(e, ts) ==
  [f \in DOMAIN e \cup {"timestamp"} |-> IF f = "timestamp" THEN ts ELSE e[f]]

\* variant: _cleanup_old_records deleting every row
CleanupAll(rows, clock) == <<>>
\* DELETE FROM trades WHERE timestamp < cutoff_time
_cleanup_old_records(rows, clock) ==
  SelectSeq(rows, LAMBDA r : ~(r.timestamp < clock - Retention))

\* the lifecycle rows of a position, oldest first
LifecycleRows(rows, id) ==
  SelectSeq(rows, LAMBDA r : r.position_id = id /\ r.event_type \in LifecycleEvents)

\* PositionStatus(latest_status) succeeds
PositionStatusValues == {"pending", "opened", "closing", "closed", "error"}

\* variant: load_position reading the position_created row only
LoadPositionAsCreated(rows, id) ==
  LET created == SelectSeq(LifecycleRows(rows, id),
                           LAMBDA r : r.event_type = "position_created")
  IN IF created = <<>> THEN NoPosition
     ELSE [NoPosition EXCEPT !.status = created[1].status]
\* load_position: the Position folded from the rows of id (status "none":
\* load_position returns None)
load_position(rows, id) ==
  LET lifecycle == LifecycleRows(rows, id)
      created == SelectSeq(lifecycle, LAMBDA r : r.event_type = "position_created")
      opened == SelectSeq(lifecycle, LAMBDA r : r.event_type = "position_opened")
      closed == SelectSeq(lifecycle, LAMBDA r : r.event_type = "position_closed")
      c == created[1]
      latest == lifecycle[Len(lifecycle)]
      o == opened[Len(opened)]
      x == closed[Len(closed)]
      p0 == [NoPosition EXCEPT !.status = "pending", !.scenario = c.scenario,
               !.symbol_a = c.symbol_a, !.symbol_b = c.symbol_b,
               !.exchange_a = c.exchange_a, !.exchange_b = c.exchange_b,
               !.leg_a_side = c.metadata.leg_a_side,
               !.leg_a_quantity = c.metadata.leg_a_quantity,
               !.leg_b_side = c.metadata.leg_b_side,
               !.leg_b_quantity = c.metadata.leg_b_quantity]
      p1 == IF latest.status \in PositionStatusValues
            THEN [p0 EXCEPT !.status = latest.status] ELSE p0
      p2 == IF opened = <<>> THEN p1
            ELSE [p1 EXCEPT !.entry_spread = o.price,
                            !.entry_price_a = o.metadata.entry_price_a,
                            !.entry_price_b = o.metadata.entry_price_b,
                            !.leg_a_order_id = o.metadata.leg_a_order_id,
                            !.leg_b_order_id = o.metadata.leg_b_order_id]
      p3 == IF closed = <<>> THEN p2
            ELSE [p2 EXCEPT !.exit_spread = x.metadata.exit_spread, !.pnl = x.pnl]
  IN IF created = <<>> THEN NoPosition ELSE p3

\* the rows of the join of count_open_positions: every row of a tracked
\* position that carries the latest timestamp of its lifecycle rows
OpenCountRows(rows) ==
  LET tracked == { i \in 1..Len(rows) : /\ rows[i].event_type \in LifecycleEvents
                                         /\ rows[i].position_id # 0 }
      max_ts(id) == CHOOSE t \in { rows[i].timestamp : i \in tracked } :
                      /\ \E i \in tracked : rows[i].position_id = id /\ rows[i].timestamp = t
                      /\ \A i \in tracked : rows[i].position_id = id => rows[i].timestamp <= t
  IN { i \in 1..Len(rows) :
         /\ \E j \in tracked : rows[j].position_id = rows[i].position_id
         /\ rows[i].timestamp = max_ts(rows[i].position_id) }

\* count_open_positions
count_open_positions(rows) ==
  Cardinality({ i \in OpenCountRows(rows) : rows[i].status = "opened" })

\* the Position objects handed to the record_... calls
SamplePosition(kind, price) ==
  LET created == NewPosition(CHOOSE t \in Templates : t.scenario = "a")
      ordered == [created EXCEPT !.leg_a_order_id = 11, !.leg_b_order_id = 12]
      opened == mark_opened(ordered, price, 100)
  IN CASE kind = "position_created" -> created
       [] kind = "position_opened" -> opened
       [] kind = "position_closed" -> mark_closed(opened, 105, 100)
       [] kind = "position_error" -> mark_error(ordered)
       [] OTHER -> ordered

\* the row of one record_... call
SampleEvent(kind, id, price) ==
  LET p == SamplePosition(kind, price)
  IN CASE kind = "position_created" -> PositionCreatedEvent(id, p)
       [] kind = "position_opened" -> PositionOpenedEvent(id, p)
       [] kind = "position_closed" -> PositionClosedEvent(id, p)
       [] kind = "position_error" -> PositionErrorEvent(id, p, Msg("Leg A failed: ", ""))
       [] OTHER -> OrderPlacedEvent(id, p, p.leg_a_side, p.leg_a_quantity, price, 11,
                                    p.exchange_a, p.symbol_a, "FILLED", "entry", "a")

HistoryInit ==
  /\ risk = FALSE
  /\ max_positions = 0
  /\ has_history = TRUE
  /\ positions = [i \in Ids |-> NoPosition]
  /\ active_positions = <<>>
  /\ trades = <<>>
  /\ calls = <<>>
  /\ net = [v \in Venues |-> 0]
  /\ trail = <<>>
  /\ last = NoRun
  /\ runs = 0
  /\ now = 0
  /\ price_cache = <<>>
  /\ strategy = NoStrategy
  /\ runtime = NoRuntime
  /\ csv = <<>>

\* one record_... call on the TradeHistory
HistoryRecord(kind, id, price) ==
  /\ Len(trades) < MaxRows
  /\ trades' = Append(trades, Stamped(SampleEvent(kind, id, price), now))
  /\ last' = [NoRun EXCEPT !.op = "record"]
  /\ UNCHANGED <<risk, max_positions, has_history, positions, active_positions,
                 calls, net, trail, runs, now, price_cache, strategy, runtime, csv>>

\* time passes
Tick ==
  /\ now < MaxClock
  /\ now' = now + 1
  /\ last' = NoRun
  /\ UNCHANGED <<risk, max_positions, has_history, positions, active_positions,
                 trades, calls, net, trail, runs, price_cache, strategy, runtime, csv>>

\* TradeHistory(data_dir) on the data directory that holds the rows
OpenHistory ==
  /\ trades' = _cleanup_old_records(trades, now)
  /\ last' = [NoRun EXCEPT !.op = "open"]
  /\ UNCHANGED <<risk, max_positions, has_history, positions, active_positions,
                 calls, net, trail, runs, now, price_cache, strategy, runtime, csv>>

HistoryNext ==
  \/ \E kind \in LifecycleEvents \cup {"order_placed"}, id \in Ids :
       \E price \in (IF kind = "position_opened" THEN EntryPrices ELSE {100}) :
         HistoryRecord(kind, id, price)
  \/ Tick
  \/ OpenHistory

HistorySpec == HistoryInit /\ [][HistoryNext]_vars


\* the event types of the lifecycle rows of a position, oldest first
LifecycleTypes(rows, id) ==
  [k \in 1..Len(LifecycleRows(rows, id)) |-> LifecycleRows(rows, id)[k].event_type]

\* the step is the opening of a new TradeHistory on the rows
OpenStep == last'.op = "open" /\ now' = now

\* what C12 promises for position id once the new TradeHistory is open
Recovered(id) ==
  LET recorded == LifecycleRows(trades, id)[2]
      loaded == load_position(trades', id)
  IN /\ loaded.status = "opened"
     /\ loaded.entry_price_a = recorded.metadata.entry_price_a
     /\ loaded.entry_price_b = recorded.metadata.entry_price_b
     /\ loaded.leg_a_order_id = recorded.metadata.leg_a_order_id
     /\ loaded.leg_b_order_id = recorded.metadata.leg_b_order_id
     /\ id \in list_positions_opened(trades')
     /\ count_open_positions(trades') >= 1

WithinRetention(id) ==
  \A i \in get_position_history(trades, id) : trades[i].timestamp >= now - Retention

SameAsLoaded(id) ==
  LET loaded == load_position(trades, id)
      p == positions[id]
  IN /\ loaded.status = p.status
     /\ loaded.entry_price_a = p.entry_price_a
     /\ loaded.entry_price_b = p.entry_price_b
     /\ loaded.exit_spread = p.exit_spread
     /\ loaded.pnl = p.pnl

LastLifecycleOpened(rows) ==
  { id \in Ids : /\ LifecycleRows(rows, id) # <<>>
                 /\ LifecycleRows(rows, id)[Len(LifecycleRows(rows, id))].status = "opened" }

\* C14: after any sequence of recorded events (events may share a timestamp),
\* count_open_positions() equals the number of distinct position ids whose
\* last lifecycle event has status opened.
C14_CountOpenPositions ==
  count_open_positions(trades) = Cardinality(LastLifecycleOpened(trades))

\* how many times count_open_positions counts position id
OpenCountOf(rows, id) ==
  Cardinality({ i \in OpenCountRows(rows) :
                  rows[i].position_id = id /\ rows[i].status = "opened" })

\* C15: recording the same event twice (same or different timestamp) never
\* makes a position count as two open positions: count_open_positions() and
\* list_positions(status="opened") each account for it at most once.
C15_CountedAtMostOnce ==
  \A id \in Ids : OpenCountOf(trades, id) <= 1


\* ------------------------------------------- longer OrderManager behaviours
\* The same handlers over longer call sequences: more runs, each with fewer
\* venue responses that are not the plain one, and no price hints.
DeepRuns == 3              \* entry_order / exit_order runs in one behaviour
DeepDeviations == 1        \* venue responses of one run that are not the plain one

DeepEntryOrder(id) ==
  /\ last.op = "none"
  /\ runs < DeepRuns
  /\ positions[id].status # "none"
  /\ \E d \in entry_order(id, 0, 0) :
       /\ d.w.devs <= DeepDeviations
       /\ Finish(d, RunStart("entry", id, 0, 0))

DeepExitOrder(id) ==
  /\ last.op = "none"
  /\ runs < DeepRuns
  /\ positions[id].status # "none"
  /\ \E d \in exit_order(id) :
       /\ d.w.devs <= DeepDeviations
       /\ Finish(d, RunStart("exit", id, 0, 0))

DeepNext ==
  \/ \E id \in Ids, t \in Templates : CreatePosition(id, t)
  \/ \E id \in Ids : DeepEntryOrder(id)
  \/ \E id \in Ids : DeepExitOrder(id)
  \/ Return

DeepSpec == Init /\ [][DeepNext]_vars

\* C16: in every state reachable by create_position, entry_order and
\* exit_order calls, a position's pnl is non-null only if its status is CLOSED.
C16_PnlOnlyWhenClosed ==
  \A id \in Ids : positions[id].pnl # NoValue => positions[id].status = "closed"


\* ------------------------------------------------------ Position on its own
\* mark_opened and mark_closed called directly on a Position
Scenarios == {"a", "b"}
Quantities == {1, 100, 1000000}     \* leg quantities, small to large
Prices == {90, 100, 110}            \* entry and exit prices

\* Position(...) as the dataclass builds it
PositionOf(scenario, leg_a_quantity, leg_b_quantity) ==
  [NoPosition EXCEPT !.status = "pending", !.scenario = scenario,
     !.symbol_a = "BTCUSDT", !.symbol_b = "BTCUSDT",
     !.exchange_a = "A", !.exchange_b = "B",
     !.leg_a_side = "buy", !.leg_a_quantity = leg_a_quantity,
     !.leg_b_side = "sell", !.leg_b_quantity = leg_b_quantity]

\* the latest method call on the position and its arguments
MethodCall(op, price_a, price_b) ==
  [op |-> op, id |-> 1, price_a |-> price_a, price_b |-> price_b]

PositionInit ==
  /\ risk = FALSE
  /\ max_positions = 0
  /\ has_history = FALSE
  /\ \E scenario \in Scenarios, qa \in Quantities, qb \in Quantities :
       positions = [i \in Ids |-> IF i = 1 THEN PositionOf(scenario, qa, qb)
                                  ELSE NoPosition]
  /\ active_positions = <<>>
  /\ trades = <<>>
  /\ calls = <<>>
  /\ net = [v \in Venues |-> 0]
  /\ trail = <<>>
  /\ last = MethodCall("init", 0, 0)
  /\ runs = 0
  /\ now = 0
  /\ price_cache = <<>>
  /\ strategy = NoStrategy
  /\ runtime = NoRuntime
  /\ csv = <<>>

\* position.mark_opened(entry_price_a, entry_price_b)
MarkOpened(entry_price_a, entry_price_b) ==
  /\ positions[1].status = "pending"
  /\ positions' = [positions EXCEPT ![1] = mark_opened(@, entry_price_a, entry_price_b)]
  /\ last' = MethodCall("mark_opened", entry_price_a, entry_price_b)
  /\ UNCHANGED <<risk, max_positions, has_history, active_positions, trades,
                 calls, net, trail, runs, now, price_cache, strategy, runtime, csv>>

\* position.mark_closed(exit_price_a, exit_price_b)
MarkClosed(exit_price_a, exit_price_b) ==
  /\ positions[1].status = "opened"
  /\ positions' = [positions EXCEPT ![1] = mark_closed(@, exit_price_a, exit_price_b)]
  /\ last' = MethodCall("mark_closed", exit_price_a, exit_price_b)
  /\ UNCHANGED <<risk, max_positions, has_history, active_positions, trades,
                 calls, net, trail, runs, now, price_cache, strategy, runtime, csv>>

PositionNext ==
  \/ \E a \in Prices, b \in Prices : MarkOpened(a, b)
  \/ \E a \in Prices, b \in Prices : MarkClosed(a, b)

PositionSpec == PositionInit /\ [][PositionNext]_vars

\* C17: for scenario A and scenario B positions, mark_closed(exit_a, exit_b)
\* sets pnl = (exit_a - entry_price_a) * leg_a_quantity
\*          + (entry_price_b - exit_b) * leg_b_quantity.
C17_PnlLongShort ==
  last.op = "mark_closed"
  => positions[1].pnl =
       (last.price_a - positions[1].entry_price_a) * positions[1].leg_a_quantity
       + (positions[1].entry_price_b - last.price_b) * positions[1].leg_b_quantity

\* C18: for a scenario "a" position, mark_closed(exit_a, exit_b) sets
\* pnl = (entry_price_a - exit_a) * leg_a_quantity
\*     + (exit_b - entry_price_b) * leg_b_quantity, for every quantity.
C18_PnlScenarioA ==
  (last.op = "mark_closed" /\ positions[1].scenario = "a")
  => positions[1].pnl =
       (positions[1].entry_price_a - last.price_a) * positions[1].leg_a_quantity
       + (last.price_b - positions[1].entry_price_b) * positions[1].leg_b_quantity

\* C18 witness: a scenario "a" position with a large quantity, closed with a
\* gain on both legs
C18_Witness ==
  /\ last.op = "mark_closed"
  /\ positions[1].scenario = "a"
  /\ positions[1].status = "closed"
  /\ positions[1].leg_a_quantity = 1000000
  /\ positions[1].leg_b_quantity = 1
  /\ positions[1].entry_price_a = 110
  /\ last.price_a = 90
  /\ positions[1].entry_price_b = 90
  /\ last.price_b = 100
  /\ positions[1].pnl = 20000010


\* --------------------------------------------------- SpreadDetectionEngine
\* Strings are sequences of tokens, so that the key f"{exchange}:{symbol}" is
\* a concatenation.  Exchange names are names of the client factory, symbols
\* are plain or ccxt-style ("BTC/USDT:USDT").
MaxUpdates == 3            \* update_price calls in one behaviour
ExchangeNames == {<<"binance">>, <<"okx">>}
Symbols == {<<"BTCUSDT">>, <<"BTC/USDT", ":", "USDT">>}
PriceTypes == {"spot", "mark"}
CachedPrices == {0, 100}
Timestamps == {NoValue, 1000}       \* NoValue: timestamp None
SpreadPrices == {0, 90, 100, 110}

_make_key(exchange, symbol) == exchange \o <<":">> \o symbol

PricePoint(price, price_type, exchange, symbol, timestamp) ==
  [price |-> price, price_type |-> price_type, exchange |-> exchange,
   symbol |-> symbol, timestamp |-> timestamp]

\* the dict is the sequence of its (key, point) items, in insertion order;
\* its keys
CacheKeys(cache) == { cache[i].key : i \in 1..Len(cache) }

\* variant: update_price keeping the point a key already has
UpdateIfAbsent(cache, exchange, symbol, price, price_type, timestamp) ==
  LET key == _make_key(exchange, symbol)
  IN IF key \in CacheKeys(cache) THEN cache
     ELSE Append(cache, [key |-> key,
                         point |-> PricePoint(price, price_type, exchange, symbol,
                                              timestamp)])
\* update_price: self.price_cache[key] = PricePoint(...)
update_price(cache, exchange, symbol, price, price_type, timestamp) ==
  LET key == _make_key(exchange, symbol)
      entry == [key |-> key,
                point |-> PricePoint(price, price_type, exchange, symbol, timestamp)]
  IN IF key \in CacheKeys(cache)
     THEN [i \in 1..Len(cache) |-> IF cache[i].key = key THEN entry ELSE cache[i]]
     ELSE Append(cache, entry)

\* get_price: point.price if point else None (None is NoValue)
get_price(cache, exchange, symbol) ==
  LET key == _make_key(exchange, symbol)
  IN IF key \in CacheKeys(cache)
     THEN cache[CHOOSE i \in 1..Len(cache) : cache[i].key = key].point.price
     ELSE NoValue


\* variant: calculate_spread dividing by price_a
CalculateSpreadOverA(price_a, price_b, premium_base) ==
  IF price_b = 0 \/ price_a = 0 THEN Frac(0, 1)
  ELSE Frac(price_a - price_b, price_a)
\* calculate_spread
calculate_spread(price_a, price_b, premium_base) ==
  IF price_b = 0 \/ price_a = 0 THEN Frac(0, 1)
  ELSE IF premium_base THEN Frac(price_a - price_b, price_b)
  ELSE Frac(price_b - price_a, price_a)

\* spread > 0, for a fraction with a positive or negative denominator
Positive(f) == (f.n > 0 /\ f.d > 0) \/ (f.n < 0 /\ f.d < 0)

Max(a, b) == IF a >= b THEN a ELSE b
Min(a, b) == IF a <= b THEN a ELSE b

\* detect_scenario_a_spread: the SpreadCalculation
detect_scenario_a_spread(futures_price, spot_price) ==
  LET spread == calculate_spread(futures_price, spot_price, TRUE)
  IN [spread |-> spread,
      premium_exchange |-> IF Positive(spread) THEN "futures" ELSE "spot",
      discount_exchange |-> IF Positive(spread) THEN "spot" ELSE "futures",
      price_premium |-> Max(futures_price, spot_price),
      price_discount |-> Min(futures_price, spot_price)]

\* the latest detect_... call: its arguments and what it returned
Detected(futures_price, spot_price, result) ==
  [op |-> "detect_scenario_a_spread", id |-> 0, futures_price |-> futures_price,
   spot_price |-> spot_price, result |-> result]

EngineInit ==
  /\ risk = FALSE
  /\ max_positions = 0
  /\ has_history = FALSE
  /\ positions = [i \in Ids |-> NoPosition]
  /\ active_positions = <<>>
  /\ trades = <<>>
  /\ calls = <<>>
  /\ net = [v \in Venues |-> 0]
  /\ trail = <<>>
  /\ last = NoRun
  /\ runs = 0
  /\ now = 0
  /\ price_cache = <<>>
  /\ strategy = NoStrategy
  /\ runtime = NoRuntime
  /\ csv = <<>>

\* engine.update_price(...); calls is the log of the update_price calls
UpdatePrice(exchange, symbol, price, price_type, timestamp) ==
  /\ Len(calls) < MaxUpdates
  /\ price_cache' = update_price(price_cache, exchange, symbol, price, price_type,
                                 timestamp)
  /\ calls' = Append(calls, [op |-> "update_price", exchange |-> exchange,
                             symbol |-> symbol, price |-> price,
                             price_type |-> price_type, timestamp |-> timestamp])
  /\ last' = NoRun
  /\ UNCHANGED <<risk, max_positions, has_history, positions, active_positions,
                 trades, net, trail, runs, now, strategy, runtime, csv>>

\* engine.detect_scenario_a_spread(futures_price, spot_price)
DetectScenarioASpread(futures_price, spot_price) ==
  /\ last' = Detected(futures_price, spot_price,
                      detect_scenario_a_spread(futures_price, spot_price))
  /\ UNCHANGED <<risk, max_positions, has_history, positions, active_positions,
                 trades, calls, net, trail, runs, now, price_cache, strategy, runtime, csv>>

EngineNext ==
  \/ \E exchange \in ExchangeNames, symbol \in Symbols, price \in CachedPrices,
        price_type \in PriceTypes, timestamp \in Timestamps :
       UpdatePrice(exchange, symbol, price, price_type, timestamp)
  \/ \E futures_price \in SpreadPrices, spot_price \in SpreadPrices :
       DetectScenarioASpread(futures_price, spot_price)

EngineSpec == EngineInit /\ [][EngineNext]_vars

\* the update_price calls made for (exchange, symbol), as indices of the log
UpdatesOf(exchange, symbol) ==
  { k \in 1..Len(calls) : calls[k].exchange = exchange /\ calls[k].symbol = symbol }

\* C19: after every sequence of update_price calls, get_price(v, s) returns
\* the price of the most recent update_price(v, s, ...) call, whatever its
\* price type or timestamp, and None if no update for (v, s) was made.
C19_LastWriteWins ==
  \A v \in ExchangeNames, s \in Symbols :
    LET ups == UpdatesOf(v, s)
        latest == CHOOSE k \in ups : \A j \in ups : j <= k
    IN get_price(price_cache, v, s) = IF ups = {} THEN NoValue ELSE calls[latest].price

\* C19 witness: a key written twice with different prices and price types,
\* another key written in between, a third key never written
C19_Witness ==
  /\ Len(calls) = 3
  /\ calls[1].exchange = calls[3].exchange
  /\ calls[1].symbol = calls[3].symbol
  /\ calls[1].price_type # calls[3].price_type
  /\ calls[1].price = 100
  /\ calls[3].price = 0
  /\ calls[2].exchange # calls[1].exchange
  /\ get_price(price_cache, calls[1].exchange, calls[1].symbol) = 0
  /\ \E v \in ExchangeNames, s \in Symbols :
       UpdatesOf(v, s) = {} /\ get_price(price_cache, v, s) = NoValue

\* equality of two fractions
SameFraction(f, g) == f.n * g.d = g.n * f.d

\* C20 (as stated): for every futures price a and every spot price b > 0,
\* detect_scenario_a_spread(a, b).spread = (a - b) / b, and premium_exchange
\* is "futures" exactly when that spread is greater than 0.
C20_ScenarioASpread ==
  (last.op = "detect_scenario_a_spread" /\ last.spot_price > 0)
  => /\ SameFraction(last.result.spread,
                     Frac(last.futures_price - last.spot_price, last.spot_price))
     /\ (last.result.premium_exchange = "futures")
          <=> (last.futures_price - last.spot_price > 0)

\* C20 (amended): as C20 for every futures price a other than 0; for a = 0
\* the spread is 0 and premium_exchange is "spot".
C20_ScenarioASpreadNonZero ==
  (last.op = "detect_scenario_a_spread" /\ last.spot_price > 0)
  => IF last.futures_price = 0
     THEN /\ SameFraction(last.result.spread, Frac(0, 1))
          /\ last.result.premium_exchange = "spot"
     ELSE /\ SameFraction(last.result.spread,
                          Frac(last.futures_price - last.spot_price, last.spot_price))
          /\ (last.result.premium_exchange = "futures")
               <=> (last.futures_price - last.spot_price > 0)

\* C20 witness: a futures premium and a futures discount
C20_Witness ==
  /\ last.op = "detect_scenario_a_spread"
  /\ last.futures_price = 110
  /\ last.spot_price = 100
  /\ last.result.spread = Frac(10, 100)
  /\ last.result.premium_exchange = "futures"


\* ------------------------------------------- spreads and the entry threshold
\* detect_scenario_a_spread / detect_scenario_b_spread followed by
\* check_entry_condition, as check_entry of the two strategies calls them.
\* Thresholds are in hundredths (0.04 is 4).
EntryThresholds == {1, 4, 5, 7}

Abs(x) == IF x >= 0 THEN x ELSE 0 - x

\* check_entry_condition: abs(spread) >= entry_threshold, in both scenarios
check_entry_condition(spread, entry_threshold, scenario) ==
  Abs(spread.n) * 100 >= entry_threshold * Abs(spread.d)

\* check_exit_condition: abs(spread) <= exit_threshold, in both scenarios
check_exit_condition(spread, exit_threshold, scenario) ==
  Abs(spread.n) * 100 <= exit_threshold * Abs(spread.d)

\* what a detect_... call does: the SpreadCalculation it returns, or raised
Calculation(raised, spread, premium_exchange, discount_exchange, price_premium, price_discount) ==
  [raised |-> raised, spread |-> spread, premium_exchange |-> premium_exchange,
   discount_exchange |-> discount_exchange, price_premium |-> price_premium,
   price_discount |-> price_discount]

\* the float division of the source raises ZeroDivisionError
ZeroDivisionError == Calculation(TRUE, Frac(NoValue, 1), "", "", 0, 0)

\* variant: detect_scenario_b_spread reporting the two prices the other way round
DetectScenarioBPricesSwapped(price_a, price_b, exchange_a, exchange_b) ==
  IF price_a < price_b
  THEN IF price_a = 0 THEN ZeroDivisionError
       ELSE Calculation(FALSE, Frac(price_b - price_a, price_a),
                        exchange_b, exchange_a, price_a, price_b)
  ELSE IF price_b = 0 THEN ZeroDivisionError
       ELSE Calculation(FALSE, Frac(price_a - price_b, price_b),
                        exchange_a, exchange_b, price_b, price_a)
\* detect_scenario_b_spread
detect_scenario_b_spread(price_a, price_b, exchange_a, exchange_b) ==
  IF price_a < price_b
  THEN IF price_a = 0 THEN ZeroDivisionError
       ELSE Calculation(FALSE, Frac(price_b - price_a, price_a),
                        exchange_b, exchange_a, price_b, price_a)
  ELSE IF price_b = 0 THEN ZeroDivisionError
       ELSE Calculation(FALSE, Frac(price_a - price_b, price_b),
                        exchange_a, exchange_b, price_a, price_b)

\* the latest spread check: its inputs, the divisor of the spread formula,
\* what the detect call did and what check_entry_condition returned
SpreadCheck(op, price_a, price_b, denominator, entry_threshold, calc, scenario) ==
  [op |-> op, id |-> 0, price_a |-> price_a, price_b |-> price_b,
   denominator |-> denominator, entry_threshold |-> entry_threshold,
   raised |-> calc.raised, spread |-> calc.spread,
   entry |-> IF calc.raised THEN FALSE
             ELSE check_entry_condition(calc.spread, entry_threshold, scenario)]

\* engine.detect_scenario_a_spread(...) then engine.check_entry_condition(...)
CheckSpreadA(futures_price, spot_price, entry_threshold) ==
  /\ last' = LET r == detect_scenario_a_spread(futures_price, spot_price)
             IN SpreadCheck("scenario_a", futures_price, spot_price, spot_price,
                            entry_threshold,
                            Calculation(FALSE, r.spread, r.premium_exchange,
                                        r.discount_exchange, r.price_premium,
                                        r.price_discount), "a")
  /\ UNCHANGED <<risk, max_positions, has_history, positions, active_positions,
                 trades, calls, net, trail, runs, now, price_cache, strategy, runtime, csv>>

\* engine.detect_scenario_b_spread(...) then engine.check_entry_condition(...)
CheckSpreadB(price_a, price_b, entry_threshold) ==
  /\ last' = SpreadCheck("scenario_b", price_a, price_b,
                         IF price_a < price_b THEN price_a ELSE price_b,
                         entry_threshold,
                         detect_scenario_b_spread(price_a, price_b, "A", "B"), "b")
  /\ UNCHANGED <<risk, max_positions, has_history, positions, active_positions,
                 trades, calls, net, trail, runs, now, price_cache, strategy, runtime, csv>>

SpreadNext ==
  \/ \E a \in SpreadPrices, b \in SpreadPrices, t \in EntryThresholds : CheckSpreadA(a, b, t)
  \/ \E a \in SpreadPrices, b \in SpreadPrices, t \in EntryThresholds : CheckSpreadB(a, b, t)

SpreadSpec == EngineInit /\ [][SpreadNext]_vars

\* C21: a spread whose denominator is zero is returned as 0 by
\* detect_scenario_a_spread and by detect_scenario_b_spread, no error is
\* raised, and check_entry_condition is false on it for every entry threshold.
C21_ZeroDenominator ==
  (last.op \in {"scenario_a", "scenario_b"} /\ last.denominator = 0)
  => /\ ~last.raised
     /\ SameFraction(last.spread, Frac(0, 1))
     /\ ~last.entry



\* ------------------------------------------------------------- strategies
\* ScenarioAStrategy and ScenarioBStrategy on one OrderManager and one
\* SpreadDetectionEngine, called as the trade loops of run() call them:
\* futures_client / exchange_a_client is the client named "A", spot_client /
\* exchange_b_client the client named "B".  A venue of `calls` and `net` is
\* the client the call was made on.
StrategyRuns == 3          \* entry_order / exit_order runs in one behaviour
StrategyDeviations == 1    \* venue responses of one run that are not the plain one
StrategyPrices == {0, 100, 104}     \* prices the streams deliver
EntryThreshold == 4                 \* entry_threshold 0.04
ExitThreshold == 1                  \* exit_threshold 0.01

\* the str of the model as the token sequence of the engine's keys
Tokens(s) == <<s>>

\* the strategy's argument symbols and the position it holds
StrategyOf(t) ==
  [scenario |-> t.scenario, symbol_a |-> t.symbol_a, symbol_b |-> t.symbol_b,
   current_position |-> 0]

\* variant: the missing-price test requiring both prices to be missing
MissingBoth(price_a, price_b) == price_a = NoValue /\ price_b = NoValue
\* futures_price is None or spot_price is None
MissingPrice(price_a, price_b) == price_a = NoValue \/ price_b = NoValue

\* variant: the guard of check_entry never seeing a held position
HoldsPositionNever(current_position) == FALSE
\* self.current_position is not None
HoldsPosition(current_position) == current_position # 0

\* the state a strategy call works on when it runs no entry_order or exit_order
Untouched ==
  [pos |-> NoPosition, active |-> active_positions, trades |-> trades,
   calls |-> <<>>, net |-> [v \in Venues |-> 0], trail |-> <<>>, devs |-> 0]

\* a finished check_entry / check_exit: the position the call ran an order
\* coroutine on (0: none), whether the position was created by the call, the
\* finished coroutine, what the call returned, the strategy's position after it
\* and the price hints it gave to entry_order (0: none)
Checked(id, created, d, ret, current_position, price_hint_a, price_hint_b) ==
  [id |-> id, created |-> created, d |-> d, ret |-> ret,
   current_position |-> current_position,
   price_hint_a |-> price_hint_a, price_hint_b |-> price_hint_b]

\* the call returned without creating a position or running a coroutine
Skipped(ret) == Checked(0, FALSE, Done(Untouched, "none"), ret, strategy.current_position, 0, 0)

\* the id create_position gives to the next position (0: the bound is reached)
NextPositionId ==
  IF \E i \in Ids : positions[i].status = "none"
  THEN CHOOSE i \in Ids : positions[i].status = "none"
                          /\ \A j \in Ids : j < i => positions[j].status # "none"
  ELSE 0

\* create_position as the strategies call it
StrategyPosition(scenario, symbol_a, exchange_a, symbol_b, exchange_b) ==
  [NoPosition EXCEPT !.status = "pending", !.scenario = scenario,
     !.symbol_a = symbol_a, !.symbol_b = symbol_b,
     !.exchange_a = exchange_a, !.exchange_b = exchange_b,
     !.leg_a_side = "buy", !.leg_a_quantity = Qty,
     !.leg_b_side = "sell", !.leg_b_quantity = Qty]

\* the spread the strategy computes from the two cached prices
StrategySpread(scenario, price_a, price_b) ==
  IF scenario = "a"
  THEN LET r == detect_scenario_a_spread(price_a, price_b)
       IN Calculation(FALSE, r.spread, r.premium_exchange, r.discount_exchange,
                      r.price_premium, r.price_discount)
  ELSE detect_scenario_b_spread(price_a, price_b, "A", "B")

\* create_position and entry_order of check_entry, for the position p
EnterPosition(p, price_hint_a, price_hint_b) ==
  LET id == NextPositionId
      w == [Untouched EXCEPT !.pos = p,
              !.trades = IF has_history THEN Append(@, PositionCreatedEvent(id, p))
                         ELSE @]
  IN IF id = 0 THEN {}
     ELSE { Checked(id, TRUE, d,
                    IF d.ret = "true" THEN "position" ELSE "none",
                    IF d.ret = "true" THEN id ELSE 0,
                    price_hint_a, price_hint_b)
            : d \in { e \in EntryOrderOn(w, id, price_hint_a, price_hint_b) :
                        e.w.devs <= StrategyDeviations } }

\* every way check_entry can finish
check_entry(entry_threshold) ==
  LET price_a == get_price(price_cache, Tokens("A"), Tokens(strategy.symbol_a))
      price_b == get_price(price_cache, Tokens("B"), Tokens(strategy.symbol_b))
      calc == StrategySpread(strategy.scenario, price_a, price_b)
      a_long == strategy.scenario = "a" \/ price_a < price_b
  IN IF HoldsPosition(strategy.current_position) THEN {Skipped("none")}
     ELSE IF MissingPrice(price_a, price_b) THEN {Skipped("none")}
     ELSE IF calc.raised THEN {Skipped("none")}
     ELSE IF ~check_entry_condition(calc.spread, entry_threshold, strategy.scenario)
     THEN {Skipped("none")}
     ELSE IF strategy.scenario = "a"
     THEN EnterPosition(StrategyPosition("a", strategy.symbol_a, "A",
                                         strategy.symbol_b, "B"),
                        price_a, price_b)
     ELSE EnterPosition(StrategyPosition("b",
                          IF a_long THEN strategy.symbol_a ELSE strategy.symbol_b,
                          IF a_long THEN "A" ELSE "B",
                          IF a_long THEN strategy.symbol_b ELSE strategy.symbol_a,
                          IF a_long THEN "B" ELSE "A"),
                        calc.price_discount, calc.price_premium)

OtherVenue(v) == IF v = "A" THEN "B" ELSE "A"

\* exit_order(position, client_a, client_b) sends leg A's orders to client_a
\* and leg B's to client_b: the run on a position whose exchange_a is not
\* client_a's name, with every call and quantity put on the client it went to
OnClients(d, id) ==
  IF positions[id].exchange_a = "A" THEN d
  ELSE [d EXCEPT !.w.calls = [k \in DOMAIN @ |-> [@[k] EXCEPT !.venue = OtherVenue(@)]],
                 !.w.net = [v \in Venues |-> @[OtherVenue(v)]]]

\* every way check_exit can finish
check_exit(exit_threshold) ==
  LET id == strategy.current_position
      position == positions[id]
      price_a == get_price(price_cache, Tokens("A"),
                           Tokens(IF strategy.scenario = "a" THEN position.symbol_a
                                  ELSE strategy.symbol_a))
      price_b == get_price(price_cache, Tokens("B"),
                           Tokens(IF strategy.scenario = "a" THEN position.symbol_b
                                  ELSE strategy.symbol_b))
      calc == StrategySpread(strategy.scenario, price_a, price_b)
  IN IF id = 0 THEN {Skipped("false")}
     ELSE IF ~is_open(position) THEN {Skipped("false")}
     ELSE IF MissingPrice(price_a, price_b) THEN {Skipped("false")}
     ELSE IF calc.raised THEN {Skipped("false")}
     ELSE IF ~check_exit_condition(calc.spread, exit_threshold, strategy.scenario)
     THEN {Skipped("false")}
     ELSE { Checked(id, FALSE, OnClients(d, id),
                    IF d.ret = "true" THEN "true" ELSE "false",
                    IF d.ret = "true" THEN 0 ELSE id, 0, 0)
            : d \in { e \in exit_order(id) : e.w.devs <= StrategyDeviations } }


\* what is known of a strategy call when it has finished
StrategyCall(op, r) ==
  [op |-> op, id |-> r.id, ret |-> r.ret, base |-> Len(trades),
   status_before |-> IF r.id = 0 \/ r.created THEN "none" ELSE positions[r.id].status,
   current_before |-> strategy.current_position,
   created |-> r.created, coroutine |-> r.d.ret,
   price_hint_a |-> r.price_hint_a, price_hint_b |-> r.price_hint_b,
   created_before |-> Cardinality({ i \in Ids : positions[i].status # "none" })]

\* the finished call r replaces the state of the manager, the history and the
\* strategy
StrategyEffect(op, r) ==
  /\ positions' = IF r.id = 0 THEN positions ELSE [positions EXCEPT ![r.id] = r.d.w.pos]
  /\ active_positions' = r.d.w.active
  /\ trades' = r.d.w.trades
  /\ calls' = r.d.w.calls
  /\ net' = r.d.w.net
  /\ trail' = r.d.w.trail
  /\ last' = StrategyCall(op, r)
  /\ runs' = IF r.id = 0 THEN runs ELSE runs + 1
  /\ strategy' = [strategy EXCEPT !.current_position = r.current_position]
  /\ UNCHANGED <<risk, max_positions, has_history, now, price_cache, csv>>

\* a check_entry / check_exit call made directly on the strategy
StrategyFinish(op, r) ==
  /\ r.id # 0 => runs < StrategyRuns
  /\ StrategyEffect(op, r)
  /\ UNCHANGED runtime

StrategyInit ==
  /\ risk \in BOOLEAN
  /\ max_positions = (IF risk THEN 1 ELSE 0)
  /\ has_history = TRUE
  /\ positions = [i \in Ids |-> NoPosition]
  /\ active_positions = <<>>
  /\ trades = <<>>
  /\ calls = <<>>
  /\ net = [v \in Venues |-> 0]
  /\ trail = <<>>
  /\ last = NoRun
  /\ runs = 0
  /\ now = 0
  /\ price_cache = <<>>
  /\ strategy \in { StrategyOf(t) : t \in Templates }
  /\ runtime = NoRuntime
  /\ csv = <<>>

\* strategy.check_entry(client A, client B, symbol_a, symbol_b, threshold, quantity)
CheckEntry ==
  /\ last.op = "none"
  /\ \E r \in check_entry(EntryThreshold) : StrategyFinish("check_entry", r)

\* strategy.check_exit(client A, client B, ..., threshold)
CheckExit ==
  /\ last.op = "none"
  /\ \E r \in check_exit(ExitThreshold) : StrategyFinish("check_exit", r)

\* a price update of a venue's stream is put into the cache
StreamPrice(venue, price) ==
  /\ last.op = "none"
  /\ price_cache' =
       update_price(price_cache, Tokens(venue),
                    Tokens(IF venue = "A" THEN strategy.symbol_a ELSE strategy.symbol_b),
                    price,
                    IF venue = "B" /\ strategy.scenario = "a" THEN "spot" ELSE "mark",
                    1000)
  /\ UNCHANGED <<risk, max_positions, has_history, positions, active_positions,
                 trades, calls, net, trail, last, runs, now, strategy, runtime, csv>>

StrategyNext ==
  \/ CheckEntry
  \/ CheckExit
  \/ \E venue \in Venues, price \in StrategyPrices : StreamPrice(venue, price)
  \/ Return

StrategySpec == StrategyInit /\ [][StrategyNext]_vars


\* the cache has no entry for the key of client A's or client B's symbol
SomePriceMissing ==
  \/ _make_key(Tokens("A"), Tokens(strategy.symbol_a)) \notin CacheKeys(price_cache)
  \/ _make_key(Tokens("B"), Tokens(strategy.symbol_b)) \notin CacheKeys(price_cache)

\* the positions created so far
CreatedPositions == { i \in Ids : positions[i].status # "none" }

\* C22: for both strategies, whenever the cache has no price for one of the
\* two (venue, symbol) keys, check_entry returns None and check_exit returns
\* False, no position is created, no order is placed on either venue, and the
\* strategy's current position is unchanged.
C22_MissingPrice ==
  (last.op \in {"check_entry", "check_exit"} /\ SomePriceMissing)
  => /\ last.op = "check_entry" => last.ret = "none"
     /\ last.op = "check_exit" => last.ret = "false"
     /\ ~last.created
     /\ Cardinality(CreatedPositions) = last.created_before
     /\ calls = <<>>
     /\ strategy.current_position = last.current_before

\* C22 witness: check_entry with a futures premium price cached for client A
\* and nothing cached for client B
C22_Witness ==
  /\ last.op = "check_entry"
  /\ get_price(price_cache, Tokens("A"), Tokens(strategy.symbol_a)) = 104
  /\ get_price(price_cache, Tokens("B"), Tokens(strategy.symbol_b)) = NoValue
  /\ last.ret = "none"
  /\ CreatedPositions = {}
  /\ calls = <<>>



\* set_leverage calls of the latest run on a venue
LeverageCalls(venue) ==
  { k \in 1..Len(calls) : calls[k].op = "set_leverage" /\ calls[k].venue = venue }

\* "PERP" or "SWAP" is in the symbol, whatever the case of its letters
IsPerpetualSymbol(symbol) ==
  symbol \in {"BTC-PERP", "btc-perp", "BTC-SWAP", "btc-swap"}

\* what C23 says of the set_leverage calls of one leg
LeverageOncePerPerpetualLeg(venue, symbol) ==
  IF IsPerpetualSymbol(symbol)
  THEN /\ Cardinality(LeverageCalls(venue)) = 1
       /\ \A k \in LeverageCalls(venue) :
            calls[k].quantity = Leverage /\ calls[k].symbol = symbol
  ELSE LeverageCalls(venue) = {}

BalanceCalls == { k \in 1..Len(calls) : calls[k].op = "get_balance" }

\* a set_leverage failure is followed by the balance checks, and by leg A's
\* order when no balance check stopped the run
LeverageFailureNotFatal ==
  \A k \in LeverageCalls("A") \cup LeverageCalls("B") :
    calls[k].out.raised
    => /\ \E b \in BalanceCalls : b > k
       /\ ( /\ \A b \in BalanceCalls : ~calls[b].out.raised
            /\ ShortBalanceCalls = {} )
          => \E a \in LegCalls("A", "entry") : a > k

\* C23 (as stated): during entry_order, set_leverage is called on a leg's venue
\* exactly once, with the configured leverage and the leg's symbol, when the
\* symbol contains PERP or SWAP (case-insensitive), and not at all otherwise;
\* a set_leverage failure does not stop the entry from proceeding to the
\* balance checks and order placement.
C23_LeverageForPerpetuals ==
  last.op = "entry"
  => /\ LeverageOncePerPerpetualLeg(LastPos.exchange_a, LastPos.symbol_a)
     /\ LeverageOncePerPerpetualLeg(LastPos.exchange_b, LastPos.symbol_b)
     /\ LeverageFailureNotFatal

\* C23 (amended): as C23, for an entry_order of a manager that has a risk
\* manager and whose open-position limit does not reject the entry; without a
\* risk manager, or when the limit rejects, set_leverage is not called.
C23_LeverageForPerpetualsAmended ==
  last.op = "entry"
  => IF risk /\ last.open_before < max_positions
     THEN /\ LeverageOncePerPerpetualLeg(LastPos.exchange_a, LastPos.symbol_a)
          /\ LeverageOncePerPerpetualLeg(LastPos.exchange_b, LastPos.symbol_b)
          /\ LeverageFailureNotFatal
     ELSE LeverageCalls("A") \cup LeverageCalls("B") = {}

\* C23 witness: both legs are swaps, one of them in lower case; set_leverage
\* on venue A raised, venue B's returned, and the entry opened the position
C23_Witness ==
  /\ last.op = "entry"
  /\ risk
  /\ LastPos.symbol_a = "btc-swap"
  /\ \E k \in LeverageCalls("A") : calls[k].out.raised
  /\ \E k \in LeverageCalls("B") : ~calls[k].out.raised
  /\ Cardinality(LeverageCalls("A")) = 1
  /\ Cardinality(LeverageCalls("B")) = 1
  /\ LastPos.status = "opened"



\* --------------------------------------------------------- normalize_symbol
\* A str is the sequence of its characters.
MaxSymbolLen == 3          \* length of the strings normalize_symbol is given
Characters == {"a", "A", "-", "/", " ", "\t"}
Whitespace == {" ", "\t"}  \* characters str.strip() removes (of Characters)

SymbolStrings == UNION { [1..n -> Characters] : n \in 0..MaxSymbolLen }

\* str.strip(): leading and trailing whitespace removed
Strip(s) ==
  LET inner == { i \in 1..Len(s) : s[i] \notin Whitespace }
      first == CHOOSE i \in inner : \A j \in inner : i <= j
      final == CHOOSE i \in inner : \A j \in inner : j <= i
  IN IF inner = {} THEN <<>> ELSE SubSeq(s, first, final)

\* .replace("-", "").replace("/", "").replace(" ", "")
RemoveSeparators(s) == SelectSeq(s, LAMBDA c : c \notin {"-", "/", " "})

\* str.upper() on Characters
UpperChars(s) == [i \in 1..Len(s) |-> IF s[i] = "a" THEN "A" ELSE s[i]]

\* normalize_symbol(symbol), format "unified"
normalize_symbol(symbol) ==
  IF symbol = <<>> THEN symbol
  ELSE UpperChars(RemoveSeparators(Strip(symbol)))

\* the latest normalize_symbol call: its argument, whether the argument was
\* itself returned by normalize_symbol, and the value returned
Normalized(arg, arg_normalized) ==
  [op |-> "normalize_symbol", id |-> 0, arg |-> arg,
   arg_normalized |-> arg_normalized, value |-> normalize_symbol(arg)]

NormalizeInit ==
  /\ risk = FALSE
  /\ max_positions = 0
  /\ has_history = FALSE
  /\ positions = [i \in Ids |-> NoPosition]
  /\ active_positions = <<>>
  /\ trades = <<>>
  /\ calls = <<>>
  /\ net = [v \in Venues |-> 0]
  /\ trail = <<>>
  /\ \E s \in SymbolStrings :
       last = [op |-> "input", id |-> 0, arg |-> <<>>, arg_normalized |-> FALSE,
               value |-> s]
  /\ runs = 0
  /\ now = 0
  /\ price_cache = <<>>
  /\ strategy = NoStrategy
  /\ runtime = NoRuntime
  /\ csv = <<>>

\* normalize_symbol applied to the string at hand
NormalizeSymbol ==
  /\ last.op = "input" \/ ~last.arg_normalized
  /\ last' = Normalized(last.value, last.op = "normalize_symbol")
  /\ UNCHANGED <<risk, max_positions, has_history, positions, active_positions,
                 trades, calls, net, trail, runs, now, price_cache, strategy, runtime, csv>>

NormalizeNext == NormalizeSymbol

NormalizeSpec == NormalizeInit /\ [][NormalizeNext]_vars

\* C24: normalize_symbol in its default unified format is idempotent:
\* normalize_symbol(normalize_symbol(s)) = normalize_symbol(s) for every
\* string s, including strings of separators and whitespace such as tab.
C24_NormalizeIdempotent ==
  (last.op = "normalize_symbol" /\ last.arg_normalized) => last.value = last.arg



\* the positions created by the strategy that are OPENED
OpenedPositions == { i \in Ids : is_open(positions[i]) }

\* C25: a strategy instance holds at most one position at a time: while its
\* current position is set, check_entry returns None without creating a
\* position or placing an order, and over any sequence of calls at most one
\* position created by the instance is OPENED at any moment.
C25_OnePositionAtATime ==
  /\ (last.op = "check_entry" /\ last.current_before # 0)
     => /\ last.ret = "none"
        /\ ~last.created
        /\ Cardinality(CreatedPositions) = last.created_before
        /\ calls = <<>>
        /\ strategy.current_position = last.current_before
  /\ Cardinality(OpenedPositions) <= 1

\* C25 witness: check_entry called while the strategy holds an OPENED position
\* and the cached prices meet the entry threshold
C25_Witness ==
  /\ last.op = "check_entry"
  /\ last.current_before # 0
  /\ is_open(positions[last.current_before])
  /\ get_price(price_cache, Tokens("A"), Tokens(strategy.symbol_a)) = 104
  /\ get_price(price_cache, Tokens("B"), Tokens(strategy.symbol_b)) = 100
  /\ last.ret = "none"
  /\ Cardinality(OpenedPositions) = 1



\* -------------------------------------------------------------------- run()
\* The three tasks of run()'s TaskGroup on one event loop: the consumer of
\* client A's stream, the consumer of client B's stream and the trade loop.
\* A task runs from one await to the next without interruption.  The
\* entry_quantity the loop computes is represented by Qty.
RuntimeRuns == 2           \* entry_order / exit_order runs in one behaviour
RuntimePrices == {100, 104}
Consumers == {"consume_a", "consume_b"}
Tasks == Consumers \cup {"trade_loop"}

\* arb.scenario and arb.symbol (the same symbol on both venues)
RuntimeStrategies ==
  { [scenario |-> s, symbol_a |-> "BTCUSDT", symbol_b |-> "BTCUSDT",
     current_position |-> 0] : s \in Scenarios }

RuntimeInit ==
  /\ risk = TRUE
  /\ max_positions = 1
  /\ has_history = TRUE
  /\ positions = [i \in Ids |-> NoPosition]
  /\ active_positions = <<>>
  /\ trades = <<>>
  /\ calls = <<>>
  /\ net = [v \in Venues |-> 0]
  /\ trail = <<>>
  /\ last = NoRun
  /\ runs = 0
  /\ now = 0
  /\ price_cache = <<>>
  /\ strategy \in RuntimeStrategies
  /\ runtime = [shutdown |-> FALSE,
                pc |-> [t \in Tasks |-> IF t = "trade_loop" THEN "top" ELSE "waiting"]]
  /\ csv = <<>>

\* container.shutdown.set()
SetShutdown ==
  /\ ~runtime.shutdown
  /\ runtime' = [runtime EXCEPT !.shutdown = TRUE]
  /\ UNCHANGED <<risk, max_positions, has_history, positions, active_positions,
                 trades, calls, net, trail, last, runs, now, price_cache, strategy, csv>>

\* where a consumer is while its stream's poller awaits a fetch: "waiting" (no
\* fetch has failed so far), "retrying" (the fetch after a failed one),
\* "resumed" (an update was consumed after a failed fetch)
Fetching == {"waiting", "retrying", "resumed"}

\* _consume_mark_price / _consume_spot_price: the stream yields an update, the
\* body puts it into the cache and returns if the shutdown event is set
ConsumePrice(task, price) ==
  LET venue == IF task = "consume_a" THEN "A" ELSE "B"
  IN /\ runtime.pc[task] \in Fetching
     /\ price_cache' =
          update_price(price_cache, Tokens(venue),
                       Tokens(IF venue = "A" THEN strategy.symbol_a ELSE strategy.symbol_b),
                       price,
                       IF venue = "B" /\ strategy.scenario = "a" THEN "spot" ELSE "mark",
                       1000)
     /\ runtime' = [runtime EXCEPT !.pc[task] =
                       IF runtime.shutdown THEN "done"
                       ELSE IF runtime.pc[task] = "waiting" THEN "waiting"
                       ELSE "resumed"]
     /\ UNCHANGED <<risk, max_positions, has_history, positions, active_positions,
                    trades, calls, net, trail, last, runs, now, strategy, csv>>

\* one pass of the body of the trade loop, up to its sleep
TradeLoopTick ==
  /\ runtime.pc["trade_loop"] = "top"
  /\ ~runtime.shutdown
  /\ IF strategy.current_position = 0
     THEN \E r \in check_entry(EntryThreshold) :
            (r.id # 0 => runs < RuntimeRuns) /\ StrategyEffect("check_entry", r)
     ELSE \E r \in check_exit(ExitThreshold) :
            (r.id # 0 => runs < RuntimeRuns) /\ StrategyEffect("check_exit", r)
  /\ runtime' = [runtime EXCEPT !.pc["trade_loop"] = "sleeping"]

\* the while condition of the trade loop finds the shutdown event set
TradeLoopReturn ==
  /\ runtime.pc["trade_loop"] = "top"
  /\ runtime.shutdown
  /\ runtime' = [runtime EXCEPT !.pc["trade_loop"] = "done"]
  /\ UNCHANGED <<risk, max_positions, has_history, positions, active_positions,
                 trades, calls, net, trail, last, runs, now, price_cache, strategy, csv>>

\* asyncio.sleep(0.5) is over; nothing of the pass is kept but what the
\* manager, the history and the strategy hold
TradeLoopWake ==
  /\ runtime.pc["trade_loop"] = "sleeping"
  /\ runtime' = [runtime EXCEPT !.pc["trade_loop"] = "top"]
  /\ calls' = <<>>
  /\ net' = [v \in Venues |-> 0]
  /\ trail' = <<>>
  /\ last' = NoRun
  /\ UNCHANGED <<risk, max_positions, has_history, positions, active_positions,
                 trades, runs, now, price_cache, strategy, csv>>

RuntimeNext ==
  \/ SetShutdown
  \/ \E task \in Consumers, price \in RuntimePrices : ConsumePrice(task, price)
  \/ TradeLoopTick
  \/ TradeLoopReturn
  \/ TradeLoopWake

RuntimeSpec == RuntimeInit /\ [][RuntimeNext]_vars

\* The event loop runs every task that is ready, and the venue calls of a pass
\* return; whether a stream yields another update is up to the venue.
RuntimeFairSpec ==
  /\ RuntimeSpec
  /\ WF_vars(TradeLoopTick)
  /\ WF_vars(TradeLoopReturn)
  /\ WF_vars(TradeLoopWake)

\* run() returned: the TaskGroup has no task left
RunReturned == \A t \in Tasks : runtime.pc[t] = "done"

\* C26: once the shutdown event is set, every task started by run() eventually
\* returns and run() returns, whether or not the venue streams deliver any
\* further price update.
C26_ShutdownLiveness == runtime.shutdown ~> RunReturned


\* the strategy holds a position that is OPENED
HoldsOpenedPosition ==
  strategy.current_position # 0 /\ is_open(positions[strategy.current_position])

\* the step is one pass of the trade loop
TickStep ==
  runtime.pc["trade_loop"] = "top" /\ runtime'.pc["trade_loop"] = "sleeping"

\* C27: on every tick of the trade loop, if the strategy has no OPENED
\* position then entry is evaluated (check_entry is called), also after an
\* entry or an exit that failed and left the position in ERROR.
C27_EntryEvaluatedWhenNotOpen ==
  [][ (TickStep /\ ~HoldsOpenedPosition) => last'.op = "check_entry" ]_vars


\* ------------------------------------------------- the order of entry steps
\* C28: in every entry_order run, place_market_order on venue B is called only
\* after leg A's order has been placed and validated as filled; it is never
\* called when leg A's placement raised or leg A was not confirmed.
C28_LegBAfterLegAValidated ==
  last.op = "entry"
  => \A b \in PlaceCalls :
       calls[b].venue = LastPos.exchange_b
       => \E a \in LegCalls(LastPos.exchange_a, "entry") :
            a < b /\ Validated(calls[a].out, calls[a].quantity)

\* an entry_order run that placed leg B
C28_Witness ==
  /\ last.op = "entry"
  /\ LegCalls(LastPos.exchange_b, "entry") # {}
  /\ \E a \in LegCalls(LastPos.exchange_a, "entry") : calls[a].out.status = "closed"


\* ------------------------------------------------------ compensating orders
IsCompensationCall(c) ==
  c.op = "place_market_order" /\ c.tag \notin {"entry", "exit"}

IsCompensationRow(e) ==
  \/ e.event_type = "order_rollback"
  \/ e.event_type = "order_failed" /\ e.metadata.phase \notin {"entry", "exit"}

\* the compensating order attempts of the latest run, and the rows for them
CompensationAttempts == SelectSeq(calls, IsCompensationCall)
CompensationRecords == SelectSeq(RunEvents, IsCompensationRow)

\* the one row of a compensating order attempt
RecordsAttempt(e, c) ==
  /\ e.position_id = last.id
  /\ e.side = c.side
  /\ e.quantity = c.quantity
  /\ e.metadata.exchange = c.venue
  /\ e.metadata.symbol = c.symbol
  /\ IF c.out.raised
     THEN e.event_type = "order_failed" /\ e.metadata.phase = c.tag
     ELSE /\ e.event_type = "order_rollback"
          /\ e.metadata.reason = c.tag
          /\ e.metadata.rollback_order_id = c.out.order_id
          /\ "original_order_id" \in DOMAIN e.metadata

\* the position_error rows of the latest run
PositionErrorRows == EventsOf("position_error")

\* C29: with a history store, every compensating order attempt of entry_order
\* or exit_order leaves exactly one row, order_rollback (with reason,
\* original_order_id and rollback_order_id) when the placement returned and
\* order_failed when it raised; a failed compensation is not retried, the
\* compensation of leg A after leg B's cleanup and the position_error row still
\* happen, and the position ends in ERROR.
C29_CompensationRecorded ==
  (last.op \in {"entry", "exit"} /\ has_history /\ Len(CompensationAttempts) > 0)
  => /\ Len(CompensationRecords) = Len(CompensationAttempts)
     /\ \A k \in 1..Len(CompensationAttempts) :
          RecordsAttempt(CompensationRecords[k], CompensationAttempts[k])
     /\ \A j, k \in 1..Len(CompensationAttempts) :
          (j < k /\ CompensationAttempts[j].out.raised)
          => ~( /\ CompensationAttempts[j].venue = CompensationAttempts[k].venue
                /\ CompensationAttempts[j].tag = CompensationAttempts[k].tag )
     /\ (CompensationCalls(LastPos.exchange_b) # {}
         => \E a \in CompensationCalls(LastPos.exchange_a) :
              \A b \in CompensationCalls(LastPos.exchange_b) : b < a)
     /\ Cardinality(PositionErrorRows) = 1
     /\ \A e \in PositionErrorRows :
          \A k \in 1..Len(RunEvents) : IsCompensationRow(RunEvents[k]) => k < e
     /\ LastPos.status = "error"

\* a run whose cleanup of leg B raised and which still compensated leg A
C29_Witness ==
  /\ last.op \in {"entry", "exit"}
  /\ has_history
  /\ Len(CompensationAttempts) = 2
  /\ CompensationAttempts[1].out.raised
  /\ CompensationAttempts[1].venue = LastPos.exchange_b
  /\ ~CompensationAttempts[2].out.raised
  /\ LastPos.status = "error"


\* ------------------------------------------------- the order of the checks
BalanceCallsOn(venue) == { k \in BalanceCalls : calls[k].venue = venue }

AllLeverageCalls == { k \in 1..Len(calls) : calls[k].op = "set_leverage" }

\* when the open-position limit rejects, no set_leverage and no get_balance
\* call is made
LimitCheckedFirst ==
  (risk /\ last.open_before >= max_positions)
  => (AllLeverageCalls = {} /\ BalanceCalls = {})

\* leverage setup of leg A, then of leg B, then the balance check of leg A,
\* then of leg B, then the orders
ChecksInOrder ==
  /\ \A a \in LeverageCalls(LastPos.exchange_a), b \in LeverageCalls(LastPos.exchange_b) :
       a < b
  /\ \A l \in AllLeverageCalls, b \in BalanceCalls : l < b
  /\ \A a \in BalanceCallsOn(LastPos.exchange_a), b \in BalanceCallsOn(LastPos.exchange_b) :
       a < b
  /\ \A c \in AllLeverageCalls \cup BalanceCalls, p \in PlaceCalls : c < p

\* the limit did not reject and the balance check of each leg returned without
\* finding the balance short
AllChecksPassed ==
  /\ last.open_before < max_positions
  /\ Cardinality(BalanceCallsOn(LastPos.exchange_a)) = 1
  /\ Cardinality(BalanceCallsOn(LastPos.exchange_b)) = 1
  /\ \A b \in BalanceCalls : ~calls[b].out.raised
  /\ ShortBalanceCalls = {}

\* C30 (as stated): the pre-trade checks of entry_order run in a fixed order
\* before any order is placed: the open-position limit first (when it rejects,
\* no set_leverage and no get_balance call is made), then leverage setup for
\* leg A and leg B, then the balance check for leg A and then for leg B; leg
\* A's order is placed only after all of them passed.
C30_ChecksBeforeOrders ==
  last.op = "entry"
  => /\ LimitCheckedFirst
     /\ ChecksInOrder
     /\ PlaceCalls # {} => AllChecksPassed

\* C30 (amended): with a risk manager the checks run in that order and leg A's
\* order is placed only after all of them passed; without a risk manager
\* entry_order makes no check and places leg A's order at once.
C30_ChecksBeforeOrdersAmended ==
  last.op = "entry"
  => IF risk
     THEN /\ LimitCheckedFirst
          /\ ChecksInOrder
          /\ PlaceCalls # {} => AllChecksPassed
     ELSE /\ AllLeverageCalls = {}
          /\ BalanceCalls = {}
          /\ LegCalls(LastPos.exchange_a, "entry") # {}

\* an entry with a risk manager that set the leverage of both legs, checked
\* both balances and placed leg A
C30_Witness ==
  /\ last.op = "entry"
  /\ risk
  /\ LeverageCalls(LastPos.exchange_a) # {}
  /\ LeverageCalls(LastPos.exchange_b) # {}
  /\ AllChecksPassed
  /\ LegCalls(LastPos.exchange_a, "entry") # {}


\* ------------------------------------------------- scenario B, leg assignment
\* the cached prices of the two clients
CachedPriceA == get_price(price_cache, Tokens("A"), Tokens(strategy.symbol_a))
CachedPriceB == get_price(price_cache, Tokens("B"), Tokens(strategy.symbol_b))

CheaperVenue == IF CachedPriceA < CachedPriceB THEN "A" ELSE "B"

\* the symbol the strategy was given for a client
SymbolOn(venue) == IF venue = "A" THEN strategy.symbol_a ELSE strategy.symbol_b

\* the latest call was a scenario B check_entry that created a position
ScenarioBEntered ==
  last.op = "check_entry" /\ last.created /\ strategy.scenario = "b"

\* C31: in scenario B, at entry the venue whose cached price is strictly lower
\* becomes leg A with side buy and the other venue leg B with side sell; the
\* position's exchange_a / symbol_a and the client of leg A's order are that
\* cheaper venue, and the price hints for leg A and leg B are the lower and
\* the higher price.
C31_CheaperVenueIsLegA ==
  ScenarioBEntered
  => LET p == positions[last.id]
     IN /\ CachedPriceA # CachedPriceB
        /\ p.exchange_a = CheaperVenue
        /\ p.symbol_a = SymbolOn(CheaperVenue)
        /\ p.leg_a_side = "buy"
        /\ p.exchange_b = OtherVenue(CheaperVenue)
        /\ p.symbol_b = SymbolOn(OtherVenue(CheaperVenue))
        /\ p.leg_b_side = "sell"
        /\ \A k \in PlaceCalls :
             calls[k].tag = "entry"
             => IF calls[k].venue = CheaperVenue
                THEN calls[k].side = "buy" /\ calls[k].symbol = p.symbol_a
                ELSE calls[k].side = "sell" /\ calls[k].symbol = p.symbol_b
        /\ last.price_hint_a = Min(CachedPriceA, CachedPriceB)
        /\ last.price_hint_b = Max(CachedPriceA, CachedPriceB)

\* a scenario B entry with client B the cheaper venue, both legs placed
C31_Witness ==
  /\ ScenarioBEntered
  /\ CachedPriceB < CachedPriceA
  /\ positions[last.id].exchange_a = "B"
  /\ LegCalls("B", "entry") # {}
  /\ LegCalls("A", "entry") # {}
  /\ last.ret = "position"


\* ---------------------------------------------------- scenario B, the exit
\* the latest call was a scenario B check_exit that ran exit_order
ScenarioBExited ==
  last.op = "check_exit" /\ strategy.scenario = "b" /\ last.coroutine # "none"

\* C32: in scenario B, when the strategy closes its open position, the
\* reverse-side order of each leg is sent to the venue on which the leg was
\* opened: the sell for leg A to position.exchange_a, the buy for leg B to
\* position.exchange_b, whichever venue was the cheaper one at entry.
C32_ExitOnOpeningVenues ==
  ScenarioBExited
  => LET p == positions[last.id]
     IN \A k \in PlaceCalls :
          calls[k].tag = "exit"
          => calls[k].venue = (IF calls[k].side = "sell" THEN p.exchange_a
                               ELSE p.exchange_b)


\* ------------------------------------------- exit_order and the status
\* C33: exit_order called on a position that is not OPENED (PENDING, CLOSING,
\* CLOSED or ERROR, even with both leg order ids set) places no order on any
\* venue, does not change the status and returns False.
C33_ExitOnlyWhenOpened ==
  (last.op = "exit" /\ last.status_before # "opened")
  => /\ PlaceCalls = {}
     /\ LastPos.status = last.status_before
     /\ last.ret = "false"


\* ------------------------------------------- concurrent entry_order calls
\* One entry_order coroutine for each position, all on one OrderManager and one
\* event loop.  A coroutine runs without interruption from one await to the
\* next; runtime.pc[id] is where the coroutine of position id is suspended:
\* "start" (not yet run), "checks" (the limit check passed, awaiting the
\* leverage and balance calls), "legs" (awaiting the orders), "done".
ConcurrentInit ==
  /\ risk = TRUE
  /\ max_positions = 1
  /\ has_history \in BOOLEAN
  /\ positions \in [Ids -> { NewPosition(t) : t \in Templates }]
  /\ active_positions = <<>>
  /\ trades = (IF has_history
               THEN [i \in Ids |-> PositionCreatedEvent(i, positions[i])]
               ELSE <<>>)
  /\ calls = <<>>
  /\ net = [v \in Venues |-> 0]
  /\ trail = <<>>
  /\ last = NoRun
  /\ runs = 0
  /\ now = 0
  /\ price_cache = <<>>
  /\ strategy = NoStrategy
  /\ runtime = [shutdown |-> FALSE, pc |-> [i \in Ids |-> "start"]]
  /\ csv = <<>>

\* the part of a coroutine that ran, from the world w0 to the finished d
Resume(id, w0, d, pc) ==
  /\ positions' = [positions EXCEPT ![id] = d.w.pos]
  /\ active_positions' = d.w.active
  /\ trades' = d.w.trades
  /\ calls' = d.w.calls
  /\ net' = d.w.net
  /\ trail' = d.w.trail
  /\ last' = [RunStart("entry", id, 0, 0) EXCEPT !.ret = d.ret]
  /\ runtime' = [runtime EXCEPT !.pc[id] = pc]
  /\ UNCHANGED <<risk, max_positions, has_history, runs, now, price_cache, strategy, csv>>

\* the except branch of the pre-trade block: position_error and mark_error
Rejected(id, w, ret) ==
  Done(Mark(Record(w, PositionErrorEvent(id, w.pos, RiskMessage(ret))),
            mark_error(w.pos)), "false")

\* entry_order up to its first await: check_position_limit on
\* _open_positions_count() as it is now
EntryBegin(id) ==
  /\ runtime.pc[id] = "start"
  /\ IF LimitReached(_open_positions_count)
     THEN Resume(id, World(id), Rejected(id, World(id), "limit"), "done")
     ELSE Resume(id, World(id), Done(World(id), "ok"), "checks")

\* the leverage and balance calls of the pre-trade block return
EntryChecks(id) ==
  /\ runtime.pc[id] = "checks"
  /\ \E price_hint_a \in PriceHints, price_hint_b \in PriceHints :
       \E d \in LeverageAndBalance(World(id), price_hint_a, price_hint_b) :
         IF d.ret = "ok" THEN Resume(id, World(id), d, "legs")
         ELSE IF d.ret = "raised" THEN Resume(id, World(id), d, "done")
         ELSE Resume(id, World(id), Rejected(id, d.w, d.ret), "done")

\* the orders of the two legs, the compensation included, to the return
EntryPlace(id) ==
  /\ runtime.pc[id] = "legs"
  /\ \E d \in EntryLegs(World(id), id) : Resume(id, World(id), d, "done")

ConcurrentNext ==
  \/ \E id \in Ids : EntryBegin(id)
  \/ \E id \in Ids : EntryChecks(id)
  \/ \E id \in Ids : EntryPlace(id)

ConcurrentSpec == ConcurrentInit /\ [][ConcurrentNext]_vars

\* C34: when several entry_order invocations for different positions run
\* concurrently on one OrderManager and interleave at their await points, the
\* number of positions that are OPENED at the same time never exceeds
\* max_positions.
C34_LimitUnderInterleaving ==
  Cardinality({ i \in Ids : is_open(positions[i]) }) <= max_positions


\* ------------------------------------------ open positions across restarts
\* the three queries answer "open" for position id on the rows
RecoverableAsOpened(rows, id) ==
  /\ load_position(rows, id).status = "opened"
  /\ id \in list_positions_opened(rows)
  /\ OpenCountOf(rows, id) >= 1

\* C35: a position that was opened and has no later position_closed or
\* position_error event stays recoverable across restarts however long it has
\* been open: every re-open of the TradeHistory leaves load_position(id)
\* OPENED, and the position counted by count_open_positions() and listed by
\* list_positions(status="opened").
C35_OpenedSurvivesReopen ==
  [][ \A id \in Ids :
        (OpenStep /\ RecoverableAsOpened(trades, id))
        => RecoverableAsOpened(trades', id) ]_vars


\* C36: after any sequence of recorded events and TradeHistory re-opens,
\* count_open_positions() equals the number of positions returned by
\* list_positions(status="opened").
C36_CountEqualsList ==
  count_open_positions(trades) = Cardinality(list_positions_opened(trades))


\* --------------------------------------------------- errors of a price stream
\* variant: the exception of a failed fetch leaving the poller and the
\* consumer task, upon which the TaskGroup cancels the tasks still running
PollErrorEscapes(pc, task) ==
  [t \in DOMAIN pc |-> IF t = task THEN "failed"
                       ELSE IF pc[t] = "done" THEN "done" ELSE "cancelled"]
\* _rest_poll_mark_price / _rest_poll_spot_price: the exception of a failed
\* fetch is caught and logged, and the poller goes to its sleep
PollError(pc, task) == [pc EXCEPT ![task] = "backoff"]

\* the fetch of a consumer's stream raises
FetchFails(task) ==
  /\ runtime.pc[task] \in Fetching
  /\ runtime' = [runtime EXCEPT !.pc = PollError(runtime.pc, task)]
  /\ UNCHANGED <<risk, max_positions, has_history, positions, active_positions,
                 trades, calls, net, trail, last, runs, now, price_cache, strategy, csv>>

\* asyncio.sleep(interval) of the poller is over: the next fetch
PollRetry(task) ==
  /\ runtime.pc[task] = "backoff"
  /\ runtime' = [runtime EXCEPT !.pc[task] = "retrying"]
  /\ UNCHANGED <<risk, max_positions, has_history, positions, active_positions,
                 trades, calls, net, trail, last, runs, now, price_cache, strategy, csv>>

StreamNext ==
  \/ RuntimeNext
  \/ \E task \in Consumers : FetchFails(task)
  \/ \E task \in Consumers : PollRetry(task)

StreamSpec == RuntimeInit /\ [][StreamNext]_vars

\* C37: an error raised while consuming a venue's price stream never leaves
\* the consumer task: no task fails or is cancelled (so run() does not end by
\* it), and the consumer goes on to its next fetch and can feed the cache with
\* a later update.
C37_StreamErrorsContained ==
  /\ \A t \in Tasks : runtime.pc[t] \notin {"failed", "cancelled"}
  /\ \A c \in Consumers :
       /\ runtime.pc[c] = "backoff" => ENABLED PollRetry(c)
       /\ runtime.pc[c] = "retrying"
          => \A price \in RuntimePrices : ENABLED ConsumePrice(c, price)

\* a consumer fed the cache after a failed fetch while the trade loop ran a
\* check_entry and the other consumer was still on its stream
C37_Witness ==
  /\ runtime.pc["consume_a"] = "resumed"
  /\ runtime.pc["consume_b"] \in Fetching
  /\ runtime.pc["trade_loop"] = "sleeping"
  /\ last.op = "check_entry"
  /\ get_price(price_cache, Tokens("A"), Tokens(strategy.symbol_a)) # NoValue


\* -------------------------------------------- the two sinks of TradeHistory
\* entry_order and exit_order on a manager whose history writes every row to
\* the CSV file and to the SQLite table; in each run the write of one record
\* to one sink or to both can fail.
SinkRuns == 2              \* entry_order / exit_order runs in one behaviour
Sinks == {"csv", "sqlite"}

\* variant: _record_to_csv letting the exception of a failed append out
RecordToCsvUncaught(rows, record, fails) ==
  IF fails THEN [rows |-> rows, raised |-> TRUE]
  ELSE [rows |-> Append(rows, record), raised |-> FALSE]
\* _record_to_csv: the row is appended; a failure is caught and logged
_record_to_csv(rows, record, fails) ==
  [rows |-> IF fails THEN rows ELSE Append(rows, record), raised |-> FALSE]

\* _record_to_sqlite: the row is inserted; a failure is caught and logged
_record_to_sqlite(rows, record, fails) ==
  [rows |-> IF fails THEN rows ELSE Append(rows, record), raised |-> FALSE]

\* record_trade_event on the sinks h, `failed` being the sinks whose write
\* fails: the CSV append, then the SQLite insert
record_trade_event(h, record, failed) ==
  LET c == _record_to_csv(h.csv, record, "csv" \in failed)
      s == _record_to_sqlite(h.sqlite, record, "sqlite" \in failed)
  IN IF c.raised THEN [csv |-> c.rows, sqlite |-> h.sqlite, raised |-> TRUE]
     ELSE [csv |-> c.rows, sqlite |-> s.rows, raised |-> s.raised]

\* the records of a run written in order from the i-th on, the write of the
\* k-th failing on the sinks `failed`; an exception ends the run
RECURSIVE RecordAll(_, _, _, _, _)
RecordAll(h, records, i, k, failed) ==
  IF i > Len(records) \/ h.raised THEN h
  ELSE RecordAll(record_trade_event(h, records[i], IF i = k THEN failed ELSE {}),
                 records, i + 1, k, failed)

\* position 1 is created, position 2 is created and opened
SinkPosition(i) ==
  IF i = 1 THEN SamplePosition("position_created", 100)
  ELSE IF i = 2 THEN SamplePosition("position_opened", 100)
  ELSE NoPosition

SinkRows ==
  <<SampleEvent("position_created", 1, 100), SampleEvent("position_created", 2, 100),
    SampleEvent("position_opened", 2, 100)>>

SinkInit ==
  /\ risk = FALSE
  /\ max_positions = 0
  /\ has_history = TRUE
  /\ positions = [i \in Ids |-> SinkPosition(i)]
  /\ active_positions = <<2>>
  /\ trades = SinkRows
  /\ calls = <<>>
  /\ net = [v \in Venues |-> 0]
  /\ trail = <<>>
  /\ last = NoRun
  /\ runs = 0
  /\ now = 0
  /\ price_cache = <<>>
  /\ strategy = NoStrategy
  /\ runtime = NoRuntime
  /\ csv = SinkRows

\* entry_order / exit_order on position id while a write to a sink fails
SinkRun(op, id) ==
  /\ last.op = "none"
  /\ runs < SinkRuns
  /\ positions[id].status # "none"
  /\ \E d \in (IF op = "entry" THEN entry_order(id, 0, 0) ELSE exit_order(id)) :
       /\ d.w.devs <= DeepDeviations
       /\ LET records == SubSeq(d.w.trades, Len(trades) + 1, Len(d.w.trades))
          IN \E k \in 1..Len(records), failed \in (SUBSET Sinks) \ {{}} :
               LET h == RecordAll([csv |-> csv, sqlite |-> trades, raised |-> FALSE],
                                  records, 1, k, failed)
               IN /\ trades' = h.sqlite
                  /\ csv' = h.csv
                  /\ positions' = IF h.raised THEN positions
                                  ELSE [positions EXCEPT ![id] = d.w.pos]
                  /\ active_positions' = IF h.raised THEN active_positions
                                         ELSE d.w.active
                  /\ calls' = d.w.calls
                  /\ net' = d.w.net
                  /\ trail' = d.w.trail
                  /\ last' = [op |-> op, id |-> id,
                              ret |-> IF h.raised THEN "raised" ELSE d.ret,
                              run |-> d, records |-> records, k |-> k,
                              failed |-> failed, csv_base |-> Len(csv),
                              sqlite_base |-> Len(trades)]
  /\ runs' = runs + 1
  /\ UNCHANGED <<risk, max_positions, has_history, now, price_cache, strategy, runtime>>

SinkNext ==
  \/ \E id \in Ids : SinkRun("entry", id)
  \/ \E id \in Ids : SinkRun("exit", id)
  \/ Return

SinkSpec == SinkInit /\ [][SinkNext]_vars

\* the records without the k-th
Without(records, k) ==
  [i \in 1..(Len(records) - 1) |-> IF i < k THEN records[i] ELSE records[i + 1]]

\* the rows a sink received in the latest run
WrittenTo(sink) ==
  IF sink = "csv" THEN SubSeq(csv, last.csv_base + 1, Len(csv))
  ELSE SubSeq(trades, last.sqlite_base + 1, Len(trades))

\* C38: record_trade_event never raises when the CSV append or the SQLite
\* insert fails, a failure of one sink does not prevent the write to the other
\* sink (each sink misses only the record whose write to it failed), and the
\* caller's entry or exit run continues unaffected: it returns what it returns
\* without the failure and leaves the position as it does without the failure.
C38_RecordingBestEffort ==
  last.op \in {"entry", "exit"} /\ "records" \in DOMAIN last
  => /\ last.ret = last.run.ret
     /\ positions[last.id] = last.run.w.pos
     /\ \A sink \in Sinks :
          WrittenTo(sink) = (IF sink \in last.failed
                             THEN Without(last.records, last.k)
                             ELSE last.records)

\* an entry that opened its position although the CSV append of its first
\* record failed: the SQLite table holds one row more than the CSV file
C38_Witness ==
  /\ last.op = "entry"
  /\ "records" \in DOMAIN last
  /\ last.failed = {"csv"}
  /\ last.k = 1
  /\ last.ret = "true"
  /\ positions[last.id].status = "opened"
  /\ Len(trades) = Len(csv) + 1

=============================================================================
